---------------------------- MODULE Spec2Model ----------------------------
(***************************************************************************)
(* Classical-music catalog API (composers, compositions, artists,          *)
(* recordings, albums): the request handlers of src/app/routers over the   *)
(* tables of src/app/models.py.                                            *)
(*                                                                         *)
(* A table is a set of rows (records).  Optional[T] values are <<>> (None) *)
(* or <<v>> (a value).  Strings that the code inspects character by        *)
(* character (catalog numbers) are sequences of one-character strings.     *)
(* A handler is an operator from the database and the request to a result  *)
(* [status, detail, db, commit, id]; the request action hands the result   *)
(* to the session teardown, which persists or discards it.                 *)
(***************************************************************************)
EXTENDS Integers, Sequences, FiniteSets, TLC

VARIABLES
    db,         \* the committed content of the store, one field per table
    response,   \* the last completed request: operation, arguments, outcome
    workload,   \* which slice of the API the environment exercises
    sessions    \* requests in flight, one per concurrent client

vars == <<db, response, workload, sessions>>

-----------------------------------------------------------------------------
(* Bounds of the exploration *)

\* An owner holds an ordered list of members: a recording its artists, an
\* album its recordings or its custom URLs
MaxOwners == 1
MaxMembers == 2
MaxLen == 2

\* Composers in the store and compositions created in a run
MaxComposers == 2
MaxCompositions == 2

\* Requests served at the same time
MaxSessions == 2

\* Length of the catalog numbers handed to extract_sort_order
MaxCatalogLen == 3

\* Rows in the table a list handler reads
MaxListed == 3

-----------------------------------------------------------------------------
(* Values *)

None == <<>>
Some(v) == <<v>>
Range(s) == {s[i] : i \in DOMAIN s}

\* Sequences over S of length at most n
SeqsUpTo(S, n) == UNION {[1..k -> S] : k \in 0..n}

\* ORDER BY key ASC over a set of rows: every arrangement of the rows with
\* non-decreasing keys (rows with equal keys come in an unspecified order)
OrderBy(rows, key(_)) ==
    {s \in [1..Cardinality(rows) -> rows] :
        /\ \A i, j \in DOMAIN s : i # j => s[i] # s[j]
        /\ \A i \in DOMAIN s : \A j \in DOMAIN s : i < j => key(s[i]) <= key(s[j])}

\* HTTP status codes used by the handlers
HTTP_200_OK == 200
HTTP_201_CREATED == 201
HTTP_204_NO_CONTENT == 204
HTTP_400_BAD_REQUEST == 400
HTTP_404_NOT_FOUND == 404
HTTP_500_INTERNAL_SERVER_ERROR == 500

\* The largest value of an Integer column, and the token that stands for
\* every integer beyond it
INT_MAX == 2147483647
OutOfRange == -1

-----------------------------------------------------------------------------
(* The store *)

Tables == {"composers", "compositions", "artists", "recordings", "albums",
           "album_images", "album_custom_urls"}

EmptyDb ==
    [composers |-> {}, compositions |-> {}, artists |-> {}, recordings |-> {},
     albums |-> {}, recording_artists |-> {}, album_recordings |-> {},
     album_images |-> {}, album_custom_urls |-> {},
     autoincrement |-> [t \in Tables |-> 1]]

\* unique=True / UniqueConstraint: no two rows agree on the key; a NULL in
\* the key exempts the row, as in SQL
Unique(rows, key(_), nullable(_)) ==
    \A r1, r2 \in rows :
        (r1 # r2 /\ ~nullable(r1) /\ ~nullable(r2)) => key(r1) # key(r2)

Never(r) == FALSE

\* Variant: the columns without unique=True
ComposerConstraints_without_unique(d) ==
    /\ Unique(d.composers, LAMBDA r : r.id, Never)
    /\ \A r \in d.composers : r.full_name # None /\ r.name # None

ComposerConstraints(d) ==
    /\ Unique(d.composers, LAMBDA r : r.id, Never)
    /\ Unique(d.composers, LAMBDA r : r.full_name, Never)
    /\ Unique(d.composers, LAMBDA r : r.name, Never)
    /\ \A r \in d.composers : r.full_name # None /\ r.name # None

\* Variant: the table without its two UniqueConstraints
CompositionConstraints_without_unique(d) ==
    /\ Unique(d.compositions, LAMBDA r : r.id, Never)
    /\ \A r \in d.compositions :
          /\ r.composer_id # None /\ r.title # None
          /\ \E c \in d.composers : Some(c.id) = r.composer_id
          /\ r.sort_order # Some(OutOfRange)

CompositionConstraints(d) ==
    /\ Unique(d.compositions, LAMBDA r : r.id, Never)
    /\ Unique(d.compositions, LAMBDA r : <<r.composer_id, r.title>>, Never)
    /\ Unique(d.compositions, LAMBDA r : <<r.composer_id, r.catalog_number>>,
              LAMBDA r : r.catalog_number = None)
    /\ \A r \in d.compositions :
          /\ r.composer_id # None /\ r.title # None
          /\ \E c \in d.composers : Some(c.id) = r.composer_id
          /\ r.sort_order # Some(OutOfRange)

ArtistConstraints(d) ==
    /\ Unique(d.artists, LAMBDA r : r.id, Never)
    /\ Unique(d.artists, LAMBDA r : r.name, Never)
    /\ \A r \in d.artists : r.name # None

RecordingConstraints(d) ==
    /\ Unique(d.recordings, LAMBDA r : r.id, Never)
    /\ \A r \in d.recordings :
          /\ r.composition_id # None
          /\ \E c \in d.compositions : Some(c.id) = r.composition_id

AlbumConstraints(d) ==
    /\ Unique(d.albums, LAMBDA r : r.id, Never)
    /\ \A r \in d.albums : r.album_type # None
    /\ \A r \in d.album_images : \E a \in d.albums : a.id = r.album_id
    /\ \A r \in d.album_custom_urls : \E a \in d.albums : a.id = r.album_id

recording_artists_constraints(d) ==
    /\ Unique(d.recording_artists, LAMBDA r : <<r.recording_id, r.artist_id>>, Never)
    /\ \A r \in d.recording_artists :
          /\ \E x \in d.recordings : x.id = r.recording_id
          /\ \E x \in d.artists : x.id = r.artist_id

album_recordings_constraints(d) ==
    /\ Unique(d.album_recordings, LAMBDA r : <<r.album_id, r.recording_id>>, Never)
    /\ \A r \in d.album_recordings :
          /\ \E x \in d.albums : x.id = r.album_id
          /\ \E x \in d.recordings : x.id = r.recording_id

\* What the storage engine accepts: a statement whose result breaks one of
\* the declared constraints raises IntegrityError
Constraints(d) ==
    /\ ComposerConstraints(d)
    /\ CompositionConstraints(d)
    /\ ArtistConstraints(d)
    /\ RecordingConstraints(d)
    /\ AlbumConstraints(d)
    /\ recording_artists_constraints(d)
    /\ album_recordings_constraints(d)

\* An INSERT of rows into a table that already holds a row with the same
\* primary key is refused
primary_key_taken(table, rows, pk(_)) ==
    \E r \in rows : \E e \in table : pk(r) = pk(e)

-----------------------------------------------------------------------------
(* Handler results *)

\* raise HTTPException(status_code, detail): the handler stops, nothing is
\* committed; s is the session's uncommitted view at that point
HTTPException(s, status_code, detail) ==
    [status |-> status_code, detail |-> detail, db |-> s, commit |-> FALSE, id |-> 0]

\* an exception of the storage layer escaping the handler
IntegrityError(s) ==
    [status |-> HTTP_500_INTERNAL_SERVER_ERROR, detail |-> [kind |-> "IntegrityError"],
     db |-> s, commit |-> FALSE, id |-> 0]

\* db.commit() followed by the handler's return: the pending changes are
\* flushed, checked by the storage engine and made durable
commit(s, status_code, id) ==
    IF Constraints(s)
    THEN [status |-> status_code, detail |-> [kind |-> "ok"], db |-> s,
          commit |-> TRUE, id |-> id]
    ELSE IntegrityError(s)

\* AUTO_INCREMENT: the counter moves on when a row is inserted and is not
\* moved back by a rollback
NextId(d, table) == d.autoincrement[table]
Bump(d, table) == [d EXCEPT !.autoincrement[table] = @ + 1]

\* Session teardown of the request (get_db): a committed transaction is the
\* new content of the store; anything else is rolled back
rollback(d, res) == [d EXCEPT !.autoincrement = res.db.autoincrement]
get_db(d, res) == IF res.commit THEN res.db ELSE rollback(d, res)

-----------------------------------------------------------------------------
(* Request payloads *)

\* model_dump(exclude_unset=True) minus the keys the handler pops: the
\* payload restricted to the keys in keep
Restrict(update_data, keep) == [k \in DOMAIN update_data \cap keep |-> update_data[k]]

\* Variant: the fields the payload leaves out set to None, as a payload
\* dumped without exclude_unset would do
setattr_with_unset_fields(row, update_data) ==
    [f \in DOMAIN row |-> IF f \in DOMAIN update_data THEN update_data[f]
                          ELSE IF f = "id" THEN row[f] ELSE None]

\* for key, value in update_data.items(): setattr(row, key, value)
setattr(row, update_data) ==
    [f \in DOMAIN row |-> IF f \in DOMAIN update_data THEN update_data[f] ELSE row[f]]

-----------------------------------------------------------------------------
(* Pre-checks of the create handlers *)

\* A create handler issues its existence queries one after the other and
\* raises at the first that finds a row; a check is the outcome of one
\* query: [found, status_code, detail]
first_found(checks) ==
    CHOOSE k \in DOMAIN checks : checks[k].found /\ \A j \in 1..(k - 1) : ~checks[j].found

\* The handler on one view d of the store: the first failed check raises,
\* otherwise the insert goes on
checked(d, checks, inserted) ==
    IF \E k \in DOMAIN checks : checks[k].found
    THEN HTTPException(d, checks[first_found(checks)].status_code,
                       checks[first_found(checks)].detail)
    ELSE inserted

\* Variant: a schema that lets every key of the body through
CompositionUpdate_with_extra_fields(body) == body

\* CompositionUpdate: the body validated by the schema, which has the fields
\* composer_id, catalog_number and title and ignores any other key
CompositionUpdate(body) == Restrict(body, {"composer_id", "catalog_number", "title"})

-----------------------------------------------------------------------------
(* Composers: src/app/routers/composers.py *)

\* Python truthiness of an Optional[str] / Optional[int] payload value
TruthyStr(v) == v # None /\ v[1] # ""
TruthyText(v) == v # None /\ v[1] # <<>>
TruthyInt(v) == v # None /\ v[1] # 0

\* Variant: create_composer without the query on the short name
create_composer_checks_full_name_only(d, composer) ==
    << [found |-> {c \in d.composers : c.full_name = composer.full_name} # {},
        status_code |-> HTTP_400_BAD_REQUEST,
        detail |-> [kind |-> "Composer with name exists", value |-> composer.full_name]] >>

\* The two existence queries of create_composer
create_composer_checks(d, composer) ==
    << [found |-> {c \in d.composers : c.full_name = composer.full_name} # {},
        status_code |-> HTTP_400_BAD_REQUEST,
        detail |-> [kind |-> "Composer with name exists", value |-> composer.full_name]],
       [found |-> {c \in d.composers : c.name = composer.name} # {},
        status_code |-> HTTP_400_BAD_REQUEST,
        detail |-> [kind |-> "Composer with short name exists", value |-> composer.name]] >>

\* db.add(db_composer); db.commit()
add_composer(d, composer) ==
    LET id == NextId(d, "composers")
        db_composer == [id |-> id] @@ composer
    IN  commit(Bump([d EXCEPT !.composers = @ \cup {db_composer}], "composers"),
               HTTP_201_CREATED, id)

create_composer(d, composer) ==
    checked(d, create_composer_checks(d, composer), add_composer(d, composer))

\* The queries of update_composer: the composer itself, then, for a
\* non-empty full_name or name of the payload, another composer holding it
update_composer_checks(d, composer_id, update_data) ==
    << [found |-> {c \in d.composers : c.id = composer_id} = {},
        status_code |-> HTTP_404_NOT_FOUND,
        detail |-> [kind |-> "Composer not found"]],
       [found |-> /\ "full_name" \in DOMAIN update_data
                  /\ TruthyStr(update_data.full_name)
                  /\ {c \in d.composers : /\ c.full_name = update_data.full_name
                                           /\ c.id # composer_id} # {},
        status_code |-> HTTP_400_BAD_REQUEST,
        detail |-> [kind |-> "Composer with name exists"]],
       [found |-> /\ "name" \in DOMAIN update_data
                  /\ TruthyStr(update_data.name)
                  /\ {c \in d.composers : /\ c.name = update_data.name
                                           /\ c.id # composer_id} # {},
        status_code |-> HTTP_400_BAD_REQUEST,
        detail |-> [kind |-> "Composer with short name exists"]] >>

\* for key, value in update_data.items(): setattr(db_composer, key, value);
\* db.commit()
set_composer(d, composer_id, update_data) ==
    commit([d EXCEPT !.composers =
              {IF c.id = composer_id THEN setattr(c, update_data) ELSE c : c \in @}],
           HTTP_200_OK, composer_id)

update_composer(d, composer_id, update_data) ==
    checked(d, update_composer_checks(d, composer_id, update_data),
            set_composer(d, composer_id, update_data))

-----------------------------------------------------------------------------
(* Compositions: src/app/routers/compositions.py *)

Digits == {"0", "1", "2", "3", "4", "5", "6", "7", "8", "9"}

DigitValue(c) ==
    CASE c = "0" -> 0 [] c = "1" -> 1 [] c = "2" -> 2 [] c = "3" -> 3 [] c = "4" -> 4
      [] c = "5" -> 5 [] c = "6" -> 6 [] c = "7" -> 7 [] c = "8" -> 8 [] c = "9" -> 9

\* int(match.group()) of a run of decimal digits; Python integers have no
\* width, a value beyond INT_MAX is kept as OutOfRange
RECURSIVE int(_)
int(digits) ==
    IF digits = <<>> THEN 0
    ELSE LET high == int(SubSeq(digits, 1, Len(digits) - 1))
             low == DigitValue(digits[Len(digits)])
         IN  IF high = OutOfRange \/ high > (INT_MAX - low) \div 10 THEN OutOfRange
             ELSE 10 * high + low

\* Variant: the last run of digits instead of the first
re_search_digits_last_run(text) ==
    LET ends == {i \in DOMAIN text : text[i] \in Digits}
    IN  IF ends = {} THEN None
        ELSE LET e == CHOOSE i \in ends : \A j \in ends : i >= j
                 b == CHOOSE j \in 1..e :
                        /\ \A k \in j..e : text[k] \in Digits
                        /\ (j = 1 \/ text[j - 1] \notin Digits)
             IN  Some(SubSeq(text, b, e))

\* re.search(r'\d+', text): the leftmost, longest run of digits, or None
re_search_digits(text) ==
    LET starts == {i \in DOMAIN text : text[i] \in Digits}
    IN  IF starts = {} THEN None
        ELSE LET b == CHOOSE i \in starts : \A j \in starts : i <= j
                 e == CHOOSE j \in b..Len(text) :
                        /\ \A k \in b..j : text[k] \in Digits
                        /\ (j = Len(text) \/ text[j + 1] \notin Digits)
             IN  Some(SubSeq(text, b, e))

extract_sort_order(catalog_number) ==
    IF ~TruthyText(catalog_number) THEN None
    ELSE LET match == re_search_digits(catalog_number[1])
         IN  IF match # None THEN Some(int(match[1])) ELSE None

\* Variant: the title looked up across all composers
title_of_any_composer(d, composer_id, title) ==
    {c \in d.compositions : c.title = Some(title)}

\* Composition.composer_id == composer_id, Composition.title == title
title_of_composer(d, composer_id, title) ==
    {c \in d.compositions : c.composer_id = Some(composer_id) /\ c.title = Some(title)}

\* Composition.composer_id == composer_id,
\* Composition.catalog_number == catalog_number
catalog_number_of_composer(d, composer_id, catalog_number) ==
    {c \in d.compositions :
        c.composer_id = Some(composer_id) /\ c.catalog_number = catalog_number}

\* The three queries of create_composition; the last is issued only for a
\* non-empty catalog number
create_composition_checks(d, composition) ==
    << [found |-> {c \in d.composers : c.id = composition.composer_id} = {},
        status_code |-> HTTP_404_NOT_FOUND,
        detail |-> [kind |-> "Composer not found", ids |-> {composition.composer_id}]],
       [found |-> title_of_composer(d, composition.composer_id, composition.title) # {},
        status_code |-> HTTP_400_BAD_REQUEST,
        detail |-> [kind |-> "Composition title exists", value |-> composition.title]],
       [found |-> /\ TruthyText(composition.catalog_number)
                  /\ catalog_number_of_composer(d, composition.composer_id,
                                                 composition.catalog_number) # {},
        status_code |-> HTTP_400_BAD_REQUEST,
        detail |-> [kind |-> "Composition catalog number exists",
                    value |-> composition.catalog_number]] >>

\* data['sort_order'] = extract_sort_order(...); db.add(db_composition);
\* db.commit()
add_composition(d, composition) ==
    LET id == NextId(d, "compositions")
        db_composition ==
            [id |-> id, composer_id |-> Some(composition.composer_id),
             catalog_number |-> composition.catalog_number,
             sort_order |-> extract_sort_order(composition.catalog_number),
             title |-> Some(composition.title)]
    IN  commit(Bump([d EXCEPT !.compositions = @ \cup {db_composition}], "compositions"),
               HTTP_201_CREATED, id)

create_composition(d, composition) ==
    checked(d, create_composition_checks(d, composition), add_composition(d, composition))

update_composition(d, composition_id, update_data) ==
    LET db_composition == {c \in d.compositions : c.id = composition_id}
        row == CHOOSE c \in db_composition : TRUE
        composer_id_to_check ==
            IF "composer_id" \in DOMAIN update_data THEN update_data.composer_id
            ELSE row.composer_id
        existing_title == {c \in d.compositions :
                             /\ c.composer_id = composer_id_to_check
                             /\ c.title = update_data.title
                             /\ c.id # composition_id}
        existing_catalog == {c \in d.compositions :
                               /\ c.composer_id = composer_id_to_check
                               /\ c.catalog_number = update_data.catalog_number
                               /\ c.id # composition_id}
        with_sort_order ==
            IF "catalog_number" \in DOMAIN update_data
            THEN update_data @@ [sort_order |-> extract_sort_order(update_data.catalog_number)]
            ELSE update_data
        s == [d EXCEPT !.compositions =
                {IF c.id = composition_id THEN setattr(c, with_sort_order) ELSE c : c \in @}]
    IN  IF db_composition = {}
        THEN HTTPException(d, HTTP_404_NOT_FOUND, [kind |-> "Composition not found"])
        ELSE IF /\ "composer_id" \in DOMAIN update_data
                /\ TruthyInt(update_data.composer_id)
                /\ {c \in d.composers : Some(c.id) = update_data.composer_id} = {}
        THEN HTTPException(d, HTTP_404_NOT_FOUND,
                [kind |-> "Composer not found", ids |-> Range(update_data.composer_id)])
        ELSE IF "title" \in DOMAIN update_data /\ existing_title # {}
        THEN HTTPException(d, HTTP_400_BAD_REQUEST,
                [kind |-> "Composition title exists", value |-> update_data.title])
        ELSE IF /\ "catalog_number" \in DOMAIN update_data
                /\ TruthyText(update_data.catalog_number)
                /\ existing_catalog # {}
        THEN HTTPException(d, HTTP_400_BAD_REQUEST,
                [kind |-> "Composition catalog number exists",
                 value |-> update_data.catalog_number])
        ELSE commit(s, HTTP_200_OK, composition_id)

-----------------------------------------------------------------------------
(* Artists: src/app/routers/artists.py *)

\* The existence query of create_artist
create_artist_checks(d, artist) ==
    << [found |-> {a \in d.artists : a.name = artist.name} # {},
        status_code |-> HTTP_400_BAD_REQUEST,
        detail |-> [kind |-> "Artist exists", value |-> artist.name]] >>

\* db.add(db_artist); db.commit()
add_artist(d, artist) ==
    LET id == NextId(d, "artists")
        db_artist == [id |-> id] @@ artist
    IN  commit(Bump([d EXCEPT !.artists = @ \cup {db_artist}], "artists"),
               HTTP_201_CREATED, id)

create_artist(d, artist) ==
    checked(d, create_artist_checks(d, artist), add_artist(d, artist))

\* The queries of update_artist: the artist itself, then, for a non-empty
\* name of the payload, another artist holding it
update_artist_checks(d, artist_id, update_data) ==
    << [found |-> {a \in d.artists : a.id = artist_id} = {},
        status_code |-> HTTP_404_NOT_FOUND,
        detail |-> [kind |-> "Artist not found"]],
       [found |-> /\ "name" \in DOMAIN update_data
                  /\ TruthyStr(update_data.name)
                  /\ {a \in d.artists : /\ a.name = update_data.name
                                         /\ a.id # artist_id} # {},
        status_code |-> HTTP_400_BAD_REQUEST,
        detail |-> [kind |-> "Artist exists"]] >>

\* for key, value in update_data.items(): setattr(db_artist, key, value);
\* db.commit()
set_artist(d, artist_id, update_data) ==
    commit([d EXCEPT !.artists =
              {IF a.id = artist_id THEN setattr(a, update_data) ELSE a : a \in @}],
           HTTP_200_OK, artist_id)

update_artist(d, artist_id, update_data) ==
    checked(d, update_artist_checks(d, artist_id, update_data),
            set_artist(d, artist_id, update_data))

-----------------------------------------------------------------------------
(* Recordings: src/app/routers/recordings.py *)

\* recording_artists.insert().values(recording_id, artist_id, artist_order)
\* for order, artist_id in enumerate(artist_ids)
recording_artists_rows(recording_id, artist_ids) ==
    {[recording_id |-> recording_id, artist_id |-> artist_ids[i], artist_order |-> i - 1]
        : i \in DOMAIN artist_ids}

insert_recording_artists(s, recording_id, artist_ids) ==
    [s EXCEPT !.recording_artists = @ \cup recording_artists_rows(recording_id, artist_ids)]

\* Whether the storage engine refuses the inserts
recording_artists_refused(s, recording_id, artist_ids) ==
    \/ primary_key_taken(s.recording_artists,
                         recording_artists_rows(recording_id, artist_ids),
                         LAMBDA r : <<r.recording_id, r.artist_id>>)
    \/ ~Constraints(insert_recording_artists(s, recording_id, artist_ids))

\* Variant: the delete left out
delete_recording_artists_omitted(s, recording_id) == s

\* recording_artists.delete().where(recording_artists.c.recording_id == recording_id)
delete_recording_artists(s, recording_id) ==
    [s EXCEPT !.recording_artists = {l \in @ : l.recording_id # recording_id}]

\* Variant: the length comparison the wrong way round
missing_artist_ids_wrong_comparison(d, artist_ids) ==
    LET artists == {a \in d.artists : a.id \in Range(artist_ids)}
        found_ids == {a.id : a \in artists}
    IN  [mismatch |-> Cardinality(artists) > Len(artist_ids),
         missing_ids |-> Range(artist_ids) \ found_ids]

\* The ids of artist_ids that Artist.id.in_(artist_ids) does not find
missing_artist_ids(d, artist_ids) ==
    LET artists == {a \in d.artists : a.id \in Range(artist_ids)}
        found_ids == {a.id : a \in artists}
    IN  [mismatch |-> Cardinality(artists) # Len(artist_ids),
         missing_ids |-> Range(artist_ids) \ found_ids]

\* Variant: the artists neither counted by the handler nor checked by the
\* storage engine
create_recording_without_checks(d, recording) ==
    LET composition == {c \in d.compositions : c.id = recording.composition_id}
        id == NextId(d, "recordings")
        db_recording == [id |-> id, composition_id |-> Some(recording.composition_id),
                         year |-> recording.year]
        flushed == Bump([d EXCEPT !.recordings = @ \cup {db_recording}], "recordings")
    IN  IF composition = {}
        THEN HTTPException(d, HTTP_404_NOT_FOUND,
                [kind |-> "Composition not found", ids |-> {recording.composition_id}])
        ELSE [status |-> HTTP_201_CREATED, detail |-> [kind |-> "ok"],
              db |-> insert_recording_artists(flushed, id, recording.artist_ids),
              commit |-> TRUE, id |-> id]

create_recording(d, recording) ==
    LET composition == {c \in d.compositions : c.id = recording.composition_id}
        check == missing_artist_ids(d, recording.artist_ids)
        id == NextId(d, "recordings")
        db_recording == [id |-> id, composition_id |-> Some(recording.composition_id),
                         year |-> recording.year]
        flushed == Bump([d EXCEPT !.recordings = @ \cup {db_recording}], "recordings")
        linked == insert_recording_artists(flushed, id, recording.artist_ids)
    IN  IF composition = {}
        THEN HTTPException(d, HTTP_404_NOT_FOUND,
                [kind |-> "Composition not found", ids |-> {recording.composition_id}])
        ELSE IF check.mismatch
        THEN HTTPException(d, HTTP_404_NOT_FOUND,
                [kind |-> "Artists not found", ids |-> check.missing_ids])
        ELSE IF recording_artists_refused(flushed, id, recording.artist_ids)
        THEN IntegrityError(flushed)
        ELSE commit(linked, HTTP_201_CREATED, id)

\* Variant: the relationship without its order_by, the rows in key order
Recording_artists_by_artist_id(d, recording_id) ==
    LET links == {l \in d.recording_artists :
                    l.recording_id = recording_id /\ \E a \in d.artists : a.id = l.artist_id}
    IN  {[i \in DOMAIN s |-> CHOOSE a \in d.artists : a.id = s[i].artist_id]
            : s \in OrderBy(links, LAMBDA l : l.artist_id)}

\* Recording.artists: the artists joined through recording_artists,
\* order_by=recording_artists.c.artist_order
Recording_artists(d, recording_id) ==
    LET links == {l \in d.recording_artists :
                    l.recording_id = recording_id /\ \E a \in d.artists : a.id = l.artist_id}
    IN  {[i \in DOMAIN s |-> CHOOSE a \in d.artists : a.id = s[i].artist_id]
            : s \in OrderBy(links, LAMBDA l : l.artist_order)}

\* RecordingResponse of the row with this id, one per order the storage may
\* return the artists in
RecordingResponse(d, recording_id) ==
    {r @@ [artists |-> artists] :
        r \in {x \in d.recordings : x.id = recording_id},
        artists \in Recording_artists(d, recording_id)}

read_recording(d, recording_id) ==
    IF {r \in d.recordings : r.id = recording_id} = {}
    THEN HTTPException(d, HTTP_404_NOT_FOUND, [kind |-> "Recording not found"])
    ELSE [status |-> HTTP_200_OK, detail |-> [kind |-> "ok"], db |-> d,
          commit |-> FALSE, id |-> recording_id]

\* update_recording, the part that handles artist_ids: the session after
\* the links have been replaced, or the exception raised
update_recording_artists(d, recording_id, update_data) ==
    LET replace == "artist_ids" \in DOMAIN update_data /\ update_data.artist_ids # None
        artist_ids == IF replace THEN update_data.artist_ids[1] ELSE <<>>
        check == missing_artist_ids(d, artist_ids)
        deleted == delete_recording_artists(d, recording_id)
    IN  IF ~replace THEN [raised |-> FALSE, s |-> d]
        ELSE IF check.mismatch
        THEN [raised |-> TRUE,
              result |-> HTTPException(d, HTTP_404_NOT_FOUND,
                            [kind |-> "Artists not found", ids |-> check.missing_ids])]
        ELSE IF recording_artists_refused(deleted, recording_id, artist_ids)
        THEN [raised |-> TRUE, result |-> IntegrityError(deleted)]
        ELSE [raised |-> FALSE,
              s |-> insert_recording_artists(deleted, recording_id, artist_ids)]

\* Variant: db.commit() issued before the composition check
update_recording_fields_commit_first(s, recording_id, update_data) ==
    LET rest == Restrict(update_data, {"composition_id", "year"})
        updated == [s EXCEPT !.recordings =
                      {IF r.id = recording_id THEN setattr(r, rest) ELSE r : r \in @}]
    IN  IF /\ "composition_id" \in DOMAIN rest
           /\ rest.composition_id # None
           /\ {c \in s.compositions : Some(c.id) = rest.composition_id} = {}
        THEN [HTTPException(s, HTTP_404_NOT_FOUND,
                [kind |-> "Composition not found", ids |-> Range(rest.composition_id)])
              EXCEPT !.commit = TRUE]
        ELSE commit(updated, HTTP_200_OK, recording_id)

\* update_recording, the rest: the composition check, the other fields and
\* the commit, on the session s the first part left
update_recording_fields(s, recording_id, update_data) ==
    LET rest == Restrict(update_data, {"composition_id", "year"})
        updated == [s EXCEPT !.recordings =
                      {IF r.id = recording_id THEN setattr(r, rest) ELSE r : r \in @}]
    IN  IF /\ "composition_id" \in DOMAIN rest
           /\ rest.composition_id # None
           /\ {c \in s.compositions : Some(c.id) = rest.composition_id} = {}
        THEN HTTPException(s, HTTP_404_NOT_FOUND,
                [kind |-> "Composition not found", ids |-> Range(rest.composition_id)])
        ELSE commit(updated, HTTP_200_OK, recording_id)

update_recording(d, recording_id, update_data) ==
    LET db_recording == {r \in d.recordings : r.id = recording_id}
        first == update_recording_artists(d, recording_id, update_data)
    IN  IF db_recording = {}
        THEN HTTPException(d, HTTP_404_NOT_FOUND, [kind |-> "Recording not found"])
        ELSE IF first.raised THEN first.result
        ELSE update_recording_fields(first.s, recording_id, update_data)

-----------------------------------------------------------------------------
(* Albums: src/app/routers/albums.py *)

\* album_recordings.insert().values(album_id, recording_id, recording_order)
\* for order, recording_id in enumerate(recording_ids)
album_recordings_rows(album_id, recording_ids) ==
    {[album_id |-> album_id, recording_id |-> recording_ids[i], recording_order |-> i - 1]
        : i \in DOMAIN recording_ids}

insert_album_recordings(s, album_id, recording_ids) ==
    [s EXCEPT !.album_recordings = @ \cup album_recordings_rows(album_id, recording_ids)]

\* Whether the storage engine refuses the inserts
album_recordings_refused(s, album_id, recording_ids) ==
    \/ primary_key_taken(s.album_recordings,
                         album_recordings_rows(album_id, recording_ids),
                         LAMBDA r : <<r.album_id, r.recording_id>>)
    \/ ~Constraints(insert_album_recordings(s, album_id, recording_ids))

\* album_recordings.delete().where(album_recordings.c.album_id == album_id)
delete_album_recordings(s, album_id) ==
    [s EXCEPT !.album_recordings = {l \in @ : l.album_id # album_id}]

\* The ids of recording_ids that Recording.id.in_(recording_ids) does not find
missing_recording_ids(d, recording_ids) ==
    LET recordings == {r \in d.recordings : r.id \in Range(recording_ids)}
        found_ids == {r.id : r \in recordings}
    IN  [mismatch |-> Cardinality(recordings) # Len(recording_ids),
         missing_ids |-> Range(recording_ids) \ found_ids]

\* Variant: every image up to the primary index marked primary
add_album_images_up_to_index(s, album_id, image_urls, primary_image_index) ==
    LET first == NextId(s, "album_images")
    IN  [s EXCEPT
            !.album_images = @ \cup
                {[id |-> first + i - 1, album_id |-> album_id, image_url |-> image_urls[i],
                  is_primary |-> IF primary_image_index # None
                                    /\ i - 1 <= primary_image_index[1] THEN 1 ELSE 0]
                    : i \in DOMAIN image_urls},
            !.autoincrement["album_images"] = @ + Len(image_urls)]

\* for idx, image_url in enumerate(image_urls): db.add(AlbumImage(...))
add_album_images(s, album_id, image_urls, primary_image_index) ==
    LET first == NextId(s, "album_images")
    IN  [s EXCEPT
            !.album_images = @ \cup
                {[id |-> first + i - 1, album_id |-> album_id, image_url |-> image_urls[i],
                  is_primary |-> IF primary_image_index # None
                                    /\ i - 1 = primary_image_index[1] THEN 1 ELSE 0]
                    : i \in DOMAIN image_urls},
            !.autoincrement["album_images"] = @ + Len(image_urls)]

\* Variant: url_order taken from the position in the list
add_album_custom_urls_by_index(s, album_id, custom_urls) ==
    LET first == NextId(s, "album_custom_urls")
    IN  [s EXCEPT
            !.album_custom_urls = @ \cup
                {[id |-> first + i - 1, album_id |-> album_id,
                  url_name |-> custom_urls[i].url_name, url |-> custom_urls[i].url,
                  url_order |-> i - 1]
                    : i \in DOMAIN custom_urls},
            !.autoincrement["album_custom_urls"] = @ + Len(custom_urls)]

\* for custom_url_data in custom_urls: db.add(AlbumCustomUrl(...))
add_album_custom_urls(s, album_id, custom_urls) ==
    LET first == NextId(s, "album_custom_urls")
    IN  [s EXCEPT
            !.album_custom_urls = @ \cup
                {[id |-> first + i - 1, album_id |-> album_id,
                  url_name |-> custom_urls[i].url_name, url |-> custom_urls[i].url,
                  url_order |-> custom_urls[i].url_order]
                    : i \in DOMAIN custom_urls},
            !.autoincrement["album_custom_urls"] = @ + Len(custom_urls)]

create_album(d, album) ==
    LET check == missing_recording_ids(d, album.recording_ids)
        id == NextId(d, "albums")
        db_album == [id |-> id, album_type |-> Some(album.album_type),
                     discogs_url |-> album.discogs_url,
                     goclassic_url |-> album.goclassic_url, memo |-> album.memo]
        flushed == Bump([d EXCEPT !.albums = @ \cup {db_album}], "albums")
        linked == insert_album_recordings(flushed, id, album.recording_ids)
        imaged == add_album_images(linked, id, album.image_urls, album.primary_image_index)
        urled == add_album_custom_urls(imaged, id, album.custom_urls)
    IN  IF album.recording_ids # <<>> /\ check.mismatch
        THEN HTTPException(d, HTTP_404_NOT_FOUND,
                [kind |-> "Recordings not found", ids |-> check.missing_ids])
        ELSE IF album_recordings_refused(flushed, id, album.recording_ids)
        THEN IntegrityError(flushed)
        ELSE commit(urled, HTTP_201_CREATED, id)

\* Album.recordings: the recordings joined through album_recordings,
\* order_by=album_recordings.c.recording_order, each serialised as a
\* RecordingResponse
Album_recordings(d, album_id) ==
    LET links == {l \in d.album_recordings :
                    l.album_id = album_id /\ \E r \in d.recordings : r.id = l.recording_id}
        all == UNION {RecordingResponse(d, l.recording_id) : l \in links}
    IN  UNION {{f \in [DOMAIN s -> all] : \A i \in DOMAIN s : f[i].id = s[i].recording_id}
                : s \in OrderBy(links, LAMBDA l : l.recording_order)}

\* Album.images: no order_by, the rows come in an unspecified order
Album_images(d, album_id) ==
    OrderBy({r \in d.album_images : r.album_id = album_id}, LAMBDA r : 0)

\* Album.custom_urls: order_by="AlbumCustomUrl.url_order"
Album_custom_urls(d, album_id) ==
    OrderBy({r \in d.album_custom_urls : r.album_id = album_id}, LAMBDA r : r.url_order)

AlbumResponse(d, album_id) ==
    {a @@ [recordings |-> recordings, images |-> images, custom_urls |-> custom_urls] :
        a \in {x \in d.albums : x.id = album_id},
        recordings \in Album_recordings(d, album_id),
        images \in Album_images(d, album_id),
        custom_urls \in Album_custom_urls(d, album_id)}

read_album(d, album_id) ==
    IF {a \in d.albums : a.id = album_id} = {}
    THEN HTTPException(d, HTTP_404_NOT_FOUND, [kind |-> "Album not found"])
    ELSE [status |-> HTTP_200_OK, detail |-> [kind |-> "ok"], db |-> d,
          commit |-> FALSE, id |-> album_id]

update_album(d, album_id, update_data) ==
    LET db_album == {a \in d.albums : a.id = album_id}
        replace_recordings ==
            "recording_ids" \in DOMAIN update_data /\ update_data.recording_ids # None
        recording_ids == IF replace_recordings THEN update_data.recording_ids[1] ELSE <<>>
        check == missing_recording_ids(d, recording_ids)
        deleted == delete_album_recordings(d, album_id)
        s1 == IF replace_recordings
              THEN insert_album_recordings(deleted, album_id, recording_ids)
              ELSE d
        replace_images ==
            "image_urls" \in DOMAIN update_data /\ update_data.image_urls # None
        primary_image_index ==
            IF "primary_image_index" \in DOMAIN update_data
            THEN update_data.primary_image_index ELSE None
        s2 == IF replace_images
              THEN add_album_images(
                      [s1 EXCEPT !.album_images = {r \in @ : r.album_id # album_id}],
                      album_id, update_data.image_urls[1], primary_image_index)
              ELSE s1
        replace_custom_urls ==
            "custom_urls" \in DOMAIN update_data /\ update_data.custom_urls # None
        s3 == IF replace_custom_urls
              THEN add_album_custom_urls(
                      [s2 EXCEPT !.album_custom_urls = {r \in @ : r.album_id # album_id}],
                      album_id, update_data.custom_urls[1])
              ELSE s2
        rest == Restrict(update_data,
                         {"album_type", "discogs_url", "goclassic_url", "memo"})
        s4 == [s3 EXCEPT !.albums =
                  {IF a.id = album_id THEN setattr(a, rest) ELSE a : a \in @}]
    IN  IF db_album = {}
        THEN HTTPException(d, HTTP_404_NOT_FOUND, [kind |-> "Album not found"])
        ELSE IF replace_recordings /\ check.mismatch
        THEN HTTPException(d, HTTP_404_NOT_FOUND,
                [kind |-> "Recordings not found", ids |-> check.missing_ids])
        ELSE IF replace_recordings /\ album_recordings_refused(deleted, album_id, recording_ids)
        THEN IntegrityError(deleted)
        ELSE commit(s4, HTTP_200_OK, album_id)

-----------------------------------------------------------------------------
(* Deletion: the delete handlers of the five routers *)

\* ForeignKey(..., ondelete='CASCADE'): the storage engine deletes the rows
\* whose parent row is gone, table after table down the references
ON_DELETE_CASCADE(d) ==
    LET compositions == {r \in d.compositions :
                            \E c \in d.composers : Some(c.id) = r.composer_id}
        recordings == {r \in d.recordings :
                            \E c \in compositions : Some(c.id) = r.composition_id}
    IN  [d EXCEPT
            !.compositions = compositions,
            !.recordings = recordings,
            !.recording_artists =
                {l \in @ : /\ \E r \in recordings : r.id = l.recording_id
                           /\ \E a \in d.artists : a.id = l.artist_id},
            !.album_recordings =
                {l \in @ : /\ \E a \in d.albums : a.id = l.album_id
                           /\ \E r \in recordings : r.id = l.recording_id},
            !.album_images = {r \in @ : \E a \in d.albums : a.id = r.album_id},
            !.album_custom_urls = {r \in @ : \E a \in d.albums : a.id = r.album_id}]

\* db.delete(db_composer): the unit of work deletes the composer and, by
\* cascade="all, delete-orphan", the rows of Composer.compositions
Session_delete_composer(d, composer_id) ==
    [d EXCEPT !.composers = {r \in @ : r.id # composer_id},
              !.compositions = {r \in @ : r.composer_id # Some(composer_id)}]

\* Variant: tables of a storage engine that does not act on ON DELETE
\* CASCADE; only the rows the unit of work deletes are gone
delete_composer_without_foreign_keys(d, composer_id) ==
    IF {c \in d.composers : c.id = composer_id} = {}
    THEN HTTPException(d, HTTP_404_NOT_FOUND, [kind |-> "Composer not found"])
    ELSE [status |-> HTTP_204_NO_CONTENT, detail |-> [kind |-> "ok"],
          db |-> Session_delete_composer(d, composer_id), commit |-> TRUE,
          id |-> composer_id]

delete_composer(d, composer_id) ==
    IF {c \in d.composers : c.id = composer_id} = {}
    THEN HTTPException(d, HTTP_404_NOT_FOUND, [kind |-> "Composer not found"])
    ELSE commit(ON_DELETE_CASCADE(Session_delete_composer(d, composer_id)),
                HTTP_204_NO_CONTENT, composer_id)

read_composition(d, composition_id) ==
    IF {c \in d.compositions : c.id = composition_id} = {}
    THEN HTTPException(d, HTTP_404_NOT_FOUND, [kind |-> "Composition not found"])
    ELSE [status |-> HTTP_200_OK, detail |-> [kind |-> "ok"], db |-> d,
          commit |-> FALSE, id |-> composition_id]

delete_composition(d, composition_id) ==
    IF {c \in d.compositions : c.id = composition_id} = {}
    THEN HTTPException(d, HTTP_404_NOT_FOUND, [kind |-> "Composition not found"])
    ELSE commit(ON_DELETE_CASCADE(
                    [d EXCEPT !.compositions = {r \in @ : r.id # composition_id}]),
                HTTP_204_NO_CONTENT, composition_id)

\* db.delete(db_artist): the unit of work deletes the rows of the secondary
\* table of Artist.recordings, then the artist
Session_delete_artist(d, artist_id) ==
    [d EXCEPT !.recording_artists = {l \in @ : l.artist_id # artist_id},
              !.artists = {r \in @ : r.id # artist_id}]

\* Variant: the recordings the artist plays on deleted with the artist
delete_artist_with_recordings(d, artist_id) ==
    LET played == {l.recording_id : l \in {x \in d.recording_artists : x.artist_id = artist_id}}
        deleted == [Session_delete_artist(d, artist_id)
                        EXCEPT !.recordings = {r \in @ : r.id \notin played}]
    IN  IF {a \in d.artists : a.id = artist_id} = {}
        THEN HTTPException(d, HTTP_404_NOT_FOUND, [kind |-> "Artist not found"])
        ELSE commit(ON_DELETE_CASCADE(deleted), HTTP_204_NO_CONTENT, artist_id)

delete_artist(d, artist_id) ==
    IF {a \in d.artists : a.id = artist_id} = {}
    THEN HTTPException(d, HTTP_404_NOT_FOUND, [kind |-> "Artist not found"])
    ELSE commit(ON_DELETE_CASCADE(Session_delete_artist(d, artist_id)),
                HTTP_204_NO_CONTENT, artist_id)

\* db.delete(db_recording): the rows of the secondary tables of
\* Recording.artists and Recording.albums, then the recording
Session_delete_recording(d, recording_id) ==
    [d EXCEPT !.recording_artists = {l \in @ : l.recording_id # recording_id},
              !.album_recordings = {l \in @ : l.recording_id # recording_id},
              !.recordings = {r \in @ : r.id # recording_id}]

delete_recording(d, recording_id) ==
    IF {r \in d.recordings : r.id = recording_id} = {}
    THEN HTTPException(d, HTTP_404_NOT_FOUND, [kind |-> "Recording not found"])
    ELSE commit(ON_DELETE_CASCADE(Session_delete_recording(d, recording_id)),
                HTTP_204_NO_CONTENT, recording_id)

\* db.delete(db_album): the rows of the secondary table of Album.recordings,
\* the images and custom URLs (cascade="all, delete-orphan"), then the album
Session_delete_album(d, album_id) ==
    [d EXCEPT !.album_recordings = {l \in @ : l.album_id # album_id},
              !.album_images = {r \in @ : r.album_id # album_id},
              !.album_custom_urls = {r \in @ : r.album_id # album_id},
              !.albums = {r \in @ : r.id # album_id}]

delete_album(d, album_id) ==
    IF {a \in d.albums : a.id = album_id} = {}
    THEN HTTPException(d, HTTP_404_NOT_FOUND, [kind |-> "Album not found"])
    ELSE commit(ON_DELETE_CASCADE(Session_delete_album(d, album_id)),
                HTTP_204_NO_CONTENT, album_id)

-----------------------------------------------------------------------------
(* Listing: the read_<table> handlers of the five routers *)

\* skip: int = 0, limit: int = 100
DEFAULT_LIMIT == 100

\* The collation of the String columns: names as a dictionary lists them,
\* and the weight of the characters of a catalog number
Alphabetical == <<"Abbado", "Brendel", "Casals", "Dorati">>
collate(name) == CHOOSE i \in DOMAIN Alphabetical : Alphabetical[i] = name

Collation == <<"0", "1", "2", "3", "4", "5", "6", "7", "8", "9", "B", "K">>
weight(char) == CHOOSE i \in DOMAIN Collation : Collation[i] = char

\* text1 < text2 as the storage engine compares two strings
RECURSIVE string_lt(_, _)
string_lt(text1, text2) ==
    IF text2 = <<>> THEN FALSE
    ELSE IF text1 = <<>> THEN TRUE
    ELSE IF text1[1] = text2[1] THEN string_lt(Tail(text1), Tail(text2))
    ELSE weight(text1[1]) < weight(text2[1])

\* Every arrangement of a set of rows in a sequence
Arrangements(rows) ==
    {s \in [1..Cardinality(rows) -> rows] : \A i, j \in DOMAIN s : i # j => s[i] # s[j]}

\* query.order_by(...): the arrangements in which no row comes after a row
\* it sorts before; rows the ORDER BY keys do not tell apart come in any order
ORDER_BY(rows, before(_, _)) ==
    {s \in Arrangements(rows) :
        \A i, j \in DOMAIN s : i < j => ~before(s[j], s[i])}

\* query.offset(skip).limit(limit)
offset_limit(s, skip, limit) ==
    IF skip >= Len(s) THEN <<>>
    ELSE SubSeq(s, skip + 1, IF skip + limit < Len(s) THEN skip + limit ELSE Len(s))

\* The response of a handler that reads and returns
Ok(d) == [status |-> HTTP_200_OK, detail |-> [kind |-> "ok"], db |-> d, commit |-> FALSE, id |-> 0]

\* if <param>: an absent or zero parameter does not filter
Filters(param) == param # None /\ param[1] # 0

\* The characters of the names and titles of the runs
chars(text) ==
    CASE text = "Abbado" -> <<"A", "b", "b", "a", "d", "o">>
      [] text = "Brendel" -> <<"B", "r", "e", "n", "d", "e", "l">>
      [] text = "Casals" -> <<"C", "a", "s", "a", "l", "s">>
      [] text = "Dorati" -> <<"D", "o", "r", "a", "t", "i">>
      [] text = "Mass" -> <<"M", "a", "s", "s">>
      [] text = "Credo" -> <<"C", "r", "e", "d", "o">>

\* The collation of the String columns does not tell a letter from its
\* capital
LowerCase == <<"a", "b", "c", "d", "e", "f", "g", "h", "i", "j", "k", "l", "m",
               "n", "o", "p", "q", "r", "s", "t", "u", "v", "w", "x", "y", "z">>
UpperCase == <<"A", "B", "C", "D", "E", "F", "G", "H", "I", "J", "K", "L", "M",
               "N", "O", "P", "Q", "R", "S", "T", "U", "V", "W", "X", "Y", "Z">>
upper(char) ==
    IF \E i \in DOMAIN LowerCase : LowerCase[i] = char
    THEN UpperCase[CHOOSE i \in DOMAIN LowerCase : LowerCase[i] = char]
    ELSE char

\* text LIKE pattern: % stands for any characters, _ for any one character
RECURSIVE like(_, _)
like(text, pattern) ==
    IF pattern = <<>> THEN text = <<>>
    ELSE IF pattern[1] = "%"
    THEN like(text, Tail(pattern)) \/ (text # <<>> /\ like(Tail(text), pattern))
    ELSE /\ text # <<>>
         /\ pattern[1] = "_" \/ upper(pattern[1]) = upper(text[1])
         /\ like(Tail(text), Tail(pattern))

\* f"%{search}%"
search_pattern(search) == <<"%">> \o search \o <<"%">>

\* Column.like(search_pattern) on a column that may be NULL
Column_like(value, pattern) == value # None /\ like(value[1], pattern)

\* The characters of a name or title column
Column_chars(value) == IF value = None THEN None ELSE Some(chars(value[1]))

\* if search: an absent or empty text does not filter
Searches(search) == search # None /\ search[1] # <<>>

\* Variant: ORDER BY id
read_artists_order_by_id(a, b) == a.id < b.id

\* order_by(Artist.name.asc())
read_artists_order_by(a, b) == collate(a.name[1]) < collate(b.name[1])

\* Variant: the subquery without func.count and group_by, one row per link
recording_count_per_link(d) ==
    {[artist_id |-> l.artist_id, recording_id |-> l.recording_id, recording_count |-> 1]
        : l \in d.recording_artists}

\* db.query(recording_artists.c.artist_id, func.count(recording_id))
\*   .group_by(recording_artists.c.artist_id).subquery()
recording_count_subquery(d) ==
    {[artist_id |-> id,
      recording_count |-> Cardinality({l \in d.recording_artists : l.artist_id = id})]
        : id \in {l.artist_id : l \in d.recording_artists}}

\* parents.outerjoin(subquery, on): a pair for every match of a parent row,
\* and a pair with no partner for a parent row that has no match
outerjoin(parents, subquery, on(_, _)) ==
    {x \in parents \X {Some(s) : s \in subquery} : on(x[1], x[2][1])}
        \cup {<<r, None>> : r \in {x \in parents : \A s \in subquery : ~on(x, s)}}

\* func.coalesce(subquery.c.recording_count, 0) of a joined pair
coalesce_recording_count(joined) ==
    IF joined[2] = None THEN 0 ELSE joined[2][1].recording_count

\* The dictionaries built from the pairs of a page
with_recording_count(page) ==
    [i \in DOMAIN page |->
        page[i][1] @@ [recording_count |-> coalesce_recording_count(page[i])]]

\* The rows read_artists selects
read_artists_filter(d, search) ==
    {a \in d.artists :
        Searches(search) =>
            \/ Column_like(Column_chars(a.name), search_pattern(search[1]))
            \/ Column_like(Column_chars(a.nationality), search_pattern(search[1]))
            \/ Column_like(Column_chars(a.instrument), search_pattern(search[1]))}

\* read_artists: the lists the handler may return
read_artists(d, skip, limit, search) ==
    LET joined == outerjoin(read_artists_filter(d, search), recording_count_subquery(d),
                            LAMBDA a, s : a.id = s.artist_id)
    IN  {with_recording_count(offset_limit(s, skip, limit)) :
            s \in ORDER_BY(joined, LAMBDA x, y : read_artists_order_by(x[1], y[1]))}

\* Variant: ORDER BY birth_year, name without the CASE, NULL sorted first
read_composers_order_by_nulls_first(a, b) ==
    IF a.birth_year # b.birth_year
    THEN a.birth_year = None \/ (b.birth_year # None /\ a.birth_year[1] < b.birth_year[1])
    ELSE collate(a.name[1]) < collate(b.name[1])

\* order_by(case((Composer.birth_year.is_(None), 1), else_=0),
\*          Composer.birth_year.asc(), Composer.name.asc())
read_composers_order_by(a, b) ==
    IF (a.birth_year = None) # (b.birth_year = None) THEN b.birth_year = None
    ELSE IF a.birth_year # b.birth_year THEN a.birth_year[1] < b.birth_year[1]
    ELSE collate(a.name[1]) < collate(b.name[1])

\* The rows read_composers selects
read_composers_filter(d, search) ==
    {c \in d.composers :
        Searches(search) =>
            \/ Column_like(Column_chars(c.full_name), search_pattern(search[1]))
            \/ Column_like(Column_chars(c.name), search_pattern(search[1]))
            \/ Column_like(Column_chars(c.nationality), search_pattern(search[1]))}

\* read_composers: the lists the handler may return
read_composers(d, skip, limit, search) ==
    {offset_limit(s, skip, limit) :
        s \in ORDER_BY(read_composers_filter(d, search), read_composers_order_by)}

\* NULL sorts before every value in ascending order
catalog_number_lt(a, b) ==
    IF a = None THEN b # None
    ELSE IF b = None THEN FALSE
    ELSE string_lt(a[1], b[1])

\* Variant: ORDER BY composer_id, sort_order, catalog_number without the
\* CASE, NULL sorted first
read_compositions_order_by_nulls_first(a, b) ==
    IF a.composer_id # b.composer_id THEN a.composer_id[1] < b.composer_id[1]
    ELSE IF a.sort_order # b.sort_order
    THEN a.sort_order = None \/ (b.sort_order # None /\ a.sort_order[1] < b.sort_order[1])
    ELSE catalog_number_lt(a.catalog_number, b.catalog_number)

\* order_by(Composition.composer_id.asc(),
\*          case((Composition.sort_order.is_(None), 1), else_=0),
\*          Composition.sort_order.asc(), Composition.catalog_number.asc())
read_compositions_order_by(a, b) ==
    IF a.composer_id # b.composer_id THEN a.composer_id[1] < b.composer_id[1]
    ELSE IF (a.sort_order = None) # (b.sort_order = None) THEN b.sort_order = None
    ELSE IF a.sort_order # b.sort_order THEN a.sort_order[1] < b.sort_order[1]
    ELSE catalog_number_lt(a.catalog_number, b.catalog_number)

\* The rows read_compositions selects
read_compositions_filter(d, composer_id, search) ==
    {c \in d.compositions :
        /\ Filters(composer_id) => c.composer_id = composer_id
        /\ Searches(search) =>
              \/ Column_like(Column_chars(c.title), search_pattern(search[1]))
              \/ Column_like(c.catalog_number, search_pattern(search[1]))}

\* db.query(Recording.composition_id, func.count(Recording.id))
\*   .group_by(Recording.composition_id).subquery()
composition_recording_count_subquery(d) ==
    {[composition_id |-> id,
      recording_count |-> Cardinality({r \in d.recordings : r.composition_id = id})]
        : id \in {r.composition_id : r \in d.recordings}}

\* read_compositions: the lists the handler may return
read_compositions(d, skip, limit, composer_id, search) ==
    LET joined == outerjoin(read_compositions_filter(d, composer_id, search),
                            composition_recording_count_subquery(d),
                            LAMBDA c, s : Some(c.id) = s.composition_id)
    IN  {with_recording_count(offset_limit(s, skip, limit)) :
            s \in ORDER_BY(joined, LAMBDA x, y : read_compositions_order_by(x[1], y[1]))}

\* Variant: ORDER BY ..., id ASC
read_recordings_order_by_id_asc(a, b) ==
    IF (a.year = None) # (b.year = None) THEN b.year = None
    ELSE IF a.year # b.year THEN a.year[1] > b.year[1]
    ELSE a.id < b.id

\* order_by(case((Recording.year.is_(None), 1), else_=0),
\*          Recording.year.desc(), Recording.id.desc())
read_recordings_order_by(a, b) ==
    IF (a.year = None) # (b.year = None) THEN b.year = None
    ELSE IF a.year # b.year THEN a.year[1] > b.year[1]
    ELSE a.id > b.id

\* The rows read_recordings selects
read_recordings_filter(d, composition_id, composer_id, artist_id) ==
    {r \in d.recordings :
        /\ Filters(composition_id) => r.composition_id = composition_id
        /\ Filters(composer_id) =>
              \E c \in d.compositions :
                  Some(c.id) = r.composition_id /\ c.composer_id = composer_id
        /\ Filters(artist_id) =>
              \E l \in d.recording_artists :
                  /\ l.recording_id = r.id /\ Some(l.artist_id) = artist_id
                  /\ \E a \in d.artists : a.id = l.artist_id}

\* read_recordings: the lists the handler may return, each recording with
\* its artists
read_recordings(d, skip, limit, composition_id, composer_id, artist_id) ==
    LET pages == {offset_limit(s, skip, limit) :
                    s \in ORDER_BY(read_recordings_filter(d, composition_id, composer_id,
                                                          artist_id),
                                   read_recordings_order_by)}
        all == UNION {RecordingResponse(d, r.id) : r \in d.recordings}
    IN  UNION {{f \in [DOMAIN page -> all] : \A i \in DOMAIN page : f[i].id = page[i].id}
                : page \in pages}

\* order_by(Album.id.desc())
read_albums_order_by(a, b) == a.id > b.id

\* The rows read_albums selects
read_albums_filter(d, album_type) ==
    {a \in d.albums : (album_type # None /\ album_type[1] # "") => a.album_type = album_type}

\* read_albums: the lists the handler may return, each album with its
\* recordings, images and custom URLs
read_albums(d, skip, limit, album_type) ==
    LET pages == {offset_limit(s, skip, limit) :
                    s \in ORDER_BY(read_albums_filter(d, album_type), read_albums_order_by)}
        all == UNION {AlbumResponse(d, a.id) : a \in d.albums}
    IN  UNION {{f \in [DOMAIN page -> all] : \A i \in DOMAIN page : f[i].id = page[i].id}
                : page \in pages}

-----------------------------------------------------------------------------
(* Requests *)

NoResponse ==
    [op |-> "none", args |-> <<>>, status |-> 0, detail |-> [kind |-> "ok"], body |-> None]

Succeeded(res) == res.status \in {HTTP_200_OK, HTTP_201_CREATED}

\* One request served from start to finish: the handler runs on the store,
\* the session is torn down, and the response is serialised from the store
\* as it then is (db.refresh and the lazy loads of the response model).
\* The client sends its next request once the response has been returned.
Request(op, args, res, bodies(_)) ==
    /\ response = NoResponse
    /\ db' = get_db(db, res)
    /\ \E body \in (IF Succeeded(res) THEN bodies(db') ELSE {None}) :
          response' = [op |-> op, args |-> args, status |-> res.status,
                       detail |-> res.detail, body |-> body]
    /\ UNCHANGED <<workload, sessions>>

\* The response leaves the server
Return ==
    /\ response # NoResponse
    /\ response' = NoResponse
    /\ UNCHANGED <<db, workload, sessions>>

RowResponse(rows, id) == {r \in rows : r.id = id}

\* Payload construction: a part is <<supplied, value>>
EmptyPayload == [k \in {} |-> None]
Unset == <<FALSE, None>>
Supplied(values) == {<<TRUE, v>> : v \in values}
Field(k, part) == IF part[1] THEN (k :> part[2]) ELSE EmptyPayload

IsSupplied(update_data, key) == key \in DOMAIN update_data /\ update_data[key] # None

-----------------------------------------------------------------------------
(* Inputs *)

\* The slices of the API a run exercises, and the rows each may create
Workloads == {"recording_artists", "album_recordings", "album_custom_urls"}

MaxRows(w, table) ==
    CASE w = "recording_artists" /\ table = "artists" -> MaxMembers
      [] w = "recording_artists" /\ table = "recordings" -> MaxOwners
      [] w = "album_recordings" /\ table = "recordings" -> MaxMembers
      [] w = "album_recordings" /\ table = "albums" -> MaxOwners
      [] w = "album_custom_urls" /\ table = "albums" -> 1
      [] w = "album_custom_urls" /\ table = "album_custom_urls" -> 2 * MaxLen
      [] w = "album_images" /\ table = "albums" -> 2
      [] w = "album_images" /\ table = "album_images" -> 1 + 2 * MaxLen
      [] w = "compositions" /\ table = "compositions" -> MaxCompositions
      [] w = "sort_order" /\ table = "compositions" -> MaxCompositions
      [] w = "parents" /\ table = "compositions" -> MaxCompositions
      [] w = "parents" /\ table = "recordings" -> MaxOwners
      [] w = "list_artists" /\ table = "artists" -> MaxListed
      [] w = "search_artists" /\ table = "artists" -> MaxListed
      [] w = "search_composers" /\ table = "composers" -> MaxListed
      [] w = "search_compositions" /\ table = "compositions" -> MaxListed
      [] w = "unique_composers" /\ table = "composers" -> MaxComposers
      [] w = "unique_artists" /\ table = "artists" -> MaxMembers
      [] w = "recording_count" /\ table = "artists" -> MaxMembers
      [] w = "recording_count" /\ table = "recordings" -> MaxListed
      [] w = "list_composers" /\ table = "composers" -> MaxListed
      [] w = "list_compositions" /\ table = "compositions" -> MaxListed
      [] w = "list_recordings" /\ table = "recordings" -> MaxListed
      [] w = "list_albums" /\ table = "albums" -> MaxListed
      [] OTHER -> 0

\* Room for n more rows in the table
Room(table, n) == NextId(db, table) + n - 1 <= MaxRows(workload, table)

\* Artists are named after their number; a client also retries a name that
\* is already taken
ArtistInput(i) ==
    [name |-> Some(ToString(i)), birth_year |-> None, death_year |-> None,
     nationality |-> None, instrument |-> None]

ArtistInputs(d) == {ArtistInput(i) : i \in 1..NextId(d, "artists")}

\* Years of birth and of recording: none, an early and a late one
Years == {None, Some(1900), Some(1950)}

\* Named persons to list, with every combination of name and year of birth
ListedArtists ==
    {[name |-> Some(Alphabetical[i]), birth_year |-> y, death_year |-> None,
      nationality |-> None, instrument |-> None] : i \in DOMAIN Alphabetical, y \in Years}

ListedComposers ==
    {[full_name |-> Some(Alphabetical[i]), name |-> Some(Alphabetical[i]), birth_year |-> y,
      death_year |-> None, nationality |-> None, image_url |-> None]
        : i \in DOMAIN Alphabetical, y \in Years}

\* Unique names a client sends: two names and the empty string
UniqueNames == {Some("Abbado"), Some("Brendel"), Some("")}

\* What a client sends to create_composer in a run; full name and short
\* name vary independently where uniqueness is exercised
ComposerInputsOf(w) ==
    IF w = "search_composers" THEN {c \in ListedComposers : c.birth_year = None}
    ELSE IF w = "unique_composers"
    THEN {[full_name |-> f, name |-> n, birth_year |-> None, death_year |-> None,
           nationality |-> None, image_url |-> None] : f \in UniqueNames, n \in UniqueNames}
    ELSE ListedComposers

\* The payloads of update_composer and update_artist: every subset of the
\* fields, a unique field as null, empty or a name
ComposerUpdateInputs ==
    {Field("full_name", f) @@ Field("name", n) @@ Field("birth_year", y) :
        f \in {Unset} \cup Supplied({None} \cup UniqueNames),
        n \in {Unset} \cup Supplied({None} \cup UniqueNames),
        y \in {Unset} \cup Supplied({Some(1900)})}

ArtistUpdateInputs ==
    {Field("name", n) @@ Field("birth_year", y) @@ Field("instrument", i) :
        n \in {Unset} \cup Supplied({None} \cup UniqueNames),
        y \in {Unset} \cup Supplied({Some(1900)}),
        i \in {Unset} \cup Supplied({None, Some("piano")})}

\* What a client sends to create_artist in a run
ArtistInputsOf(w, d) ==
    IF w = "list_artists" THEN ListedArtists
    ELSE IF w = "unique_artists"
    THEN {[name |-> n, birth_year |-> None, death_year |-> None, nationality |-> None,
           instrument |-> None] : n \in UniqueNames}
    ELSE IF w = "search_artists" THEN {a \in ListedArtists : a.birth_year = None}
    ELSE IF w = "recording_count"
    THEN {a \in ListedArtists :
            a.name = Some(Alphabetical[NextId(d, "artists")]) /\ a.birth_year = None}
    ELSE ArtistInputs(d)

\* Lists of ids as a client may send them: existing and non-existing ids,
\* in any order, with repetitions
IdLists == SeqsUpTo(1..(MaxMembers + 1), MaxLen)

SeedComposer ==
    [full_name |-> Some("Johann Sebastian Bach"), name |-> Some("Bach"),
     birth_year |-> None, death_year |-> None, nationality |-> None, image_url |-> None]

SeedComposition ==
    [composer_id |-> 1, catalog_number |-> None, title |-> "Mass"]

\* A store holding one composer and one composition, as the two create
\* handlers leave it
SeededDb == create_composition(create_composer(EmptyDb, SeedComposer).db, SeedComposition).db

RecordingInputs(w) ==
    IF w = "recording_artists"
    THEN {[composition_id |-> c, year |-> None, artist_ids |-> l] :
            c \in {1, 2}, l \in IdLists}
    ELSE IF w = "list_recordings"
    THEN {[composition_id |-> k[1], year |-> y, artist_ids |-> k[2]] :
            k \in {<<1, <<2, 1>> >>, <<3, <<>> >>}, y \in Years}
    ELSE IF w = "recording_count"
    THEN {[composition_id |-> c, year |-> None, artist_ids |-> l] :
            c \in {1, 3}, l \in {<<>>, <<1>>, <<2, 1>>}}
    ELSE IF w = "parents"
    THEN {[composition_id |-> c, year |-> None, artist_ids |-> <<>>] :
            c \in 0..(MaxCompositions + 1)}
    ELSE {[composition_id |-> 1, year |-> None, artist_ids |-> <<>>]}

RecordingUpdateInputs ==
    {Field("artist_ids", a) @@ Field("composition_id", c) :
        a \in {Unset} \cup Supplied({None} \cup {Some(l) : l \in IdLists}),
        c \in {Unset} \cup Supplied({Some(2)})}
    \cup {Field("composition_id", <<TRUE, Some(1)>>)}

\* The payloads of update_recording in a run; where parents are exercised,
\* a composition_id that is null, 0, a row or beyond the rows, and a year
RecordingUpdateInputsOf(w) ==
    IF w = "parents"
    THEN {Field("composition_id", c) @@ Field("year", y) :
            c \in {Unset} \cup Supplied({None} \cup
                    {Some(i) : i \in 0..(MaxCompositions + 1)}),
            y \in {Unset} \cup Supplied({Some(1950)})}
    ELSE RecordingUpdateInputs

CustomUrls ==
    {[url_name |-> "site", url |-> u, url_order |-> o] : u \in {"u1", "u2"}, o \in {0, 1}}

\* Lists of image URLs of every length up to MaxLen, and the positions a
\* client names as primary: none, each index of the longest list, and one
\* beyond every list
ImageUrlLists == SeqsUpTo({"i1"}, MaxLen) \cup {<<"i1", "i2">>}
PrimaryImageIndexes == {None} \cup {Some(i) : i \in 0..MaxLen}

AlbumInputs(w) ==
    {[album_type |-> a, discogs_url |-> None, goclassic_url |-> None, memo |-> None,
      recording_ids |-> l, image_urls |-> i, primary_image_index |-> p,
      custom_urls |-> u] :
        a \in IF w = "list_albums" THEN {"LP", "CD"} ELSE {"LP"},
        l \in IF w = "album_recordings" THEN IdLists
              ELSE IF w = "list_albums" THEN {<<>>, <<3, 1>>}
              ELSE IF w = "album_images" THEN {<<2, 1>>} ELSE {<<>>},
        i \in IF w = "album_images" THEN ImageUrlLists ELSE {<<>>},
        p \in IF w = "album_images" THEN PrimaryImageIndexes ELSE {None},
        u \in IF w = "album_custom_urls" THEN SeqsUpTo(CustomUrls, MaxLen)
              ELSE IF w = "album_images"
              THEN {<<[url_name |-> "site", url |-> "u1", url_order |-> 1],
                      [url_name |-> "site", url |-> "u2", url_order |-> 0]>>}
              ELSE {<<>>}}

AlbumUpdateInputs(w) ==
    IF w = "album_images"
    THEN {Field("image_urls", i) @@ Field("primary_image_index", p) @@ other :
            i \in {Unset} \cup Supplied({None} \cup {Some(l) : l \in ImageUrlLists}),
            p \in {Unset} \cup Supplied(PrimaryImageIndexes),
            other \in {EmptyPayload, [memo |-> Some("m")], [recording_ids |-> Some(<<1>>)]}}
    ELSE IF w = "album_recordings"
    THEN {Field("recording_ids", r) :
            r \in {Unset} \cup Supplied({None} \cup {Some(l) : l \in IdLists})}
    ELSE {Field("custom_urls", u) :
            u \in {Unset} \cup Supplied({None} \cup
                    {Some(l) : l \in SeqsUpTo(CustomUrls, MaxLen)})}

\* Ids a client may address: the possible rows and one that cannot exist
OwnerIds == 1..(MaxOwners + 1)

\* The albums a client edits: where images are exercised, the album it
\* creates next to the one that is there, and one that cannot exist
AlbumIdsOf(w) == IF w = "album_images" THEN {2, 3} ELSE OwnerIds

\* Composers are named after their number
ComposerInput(i) ==
    [full_name |-> Some(ToString(i)), name |-> Some(ToString(i)),
     birth_year |-> None, death_year |-> None, nationality |-> None, image_url |-> None]

\* A store holding n composers, as create_composer leaves it
RECURSIVE ComposersDb(_)
ComposersDb(n) ==
    IF n = 0 THEN EmptyDb ELSE create_composer(ComposersDb(n - 1), ComposerInput(n)).db

ComposerIds == 1..(MaxComposers + 1)
Titles == {"Mass", "Credo"}
CatalogNumbers == {None, Some(<<>>), Some(<<"K", "1">>)}

CompositionInputs ==
    {[composer_id |-> c, catalog_number |-> n, title |-> t] :
        c \in ComposerIds, n \in CatalogNumbers, t \in Titles}

CompositionUpdateInputs ==
    {Field("composer_id", c) @@ Field("title", t) @@ Field("catalog_number", n) :
        c \in {Unset} \cup Supplied({Some(i) : i \in ComposerIds}),
        t \in {Unset} \cup Supplied({Some(x) : x \in Titles}),
        n \in {Unset} \cup Supplied(CatalogNumbers)}

CompositionIds == 1..(MaxCompositions + 1)

\* Catalog numbers for the sort key: none, empty, without a digit, with one
\* run of digits, with two runs, and with a run beyond the Integer column
SortOrderCatalogNumbers ==
    {None, Some(<<>>), Some(<<"K">>), Some(<<"K", "1">>), Some(<<"7", "a", "2">>),
     Some(<<"4", "2", "9", "4", "9", "6", "7", "2", "9", "6">>)}

\* Compositions to list, as <<composer, catalog number>>: without a catalog
\* number, without a digit, with equal and with different sort keys
ListedCatalogNumbers ==
    {<<1, None>>, <<1, Some(<<"K">>)>>, <<1, Some(<<"K", "2">>)>>,
     <<1, Some(<<"B", "2">>)>>, <<1, Some(<<"K", "1">>)>>, <<2, None>>}

\* Ids a client names as the parent of a row: 0, the rows there are, and
\* one beyond them
ParentIds == 0..(MaxComposers + 1)

\* What a client sends to create_composition in a run
CompositionInputsOf(w, d) ==
    IF w = "sort_order"
    THEN {[composer_id |-> 1, catalog_number |-> n,
           title |-> ToString(NextId(d, "compositions"))] : n \in SortOrderCatalogNumbers}
    ELSE IF w = "search_compositions"
    THEN {[composer_id |-> c, catalog_number |-> n, title |-> x] :
            c \in {1, 2}, n \in {None, Some(<<"K", "2">>), Some(<<"B", "2">>)},
            x \in Titles}
    ELSE IF w = "list_compositions"
    THEN {[composer_id |-> k[1], catalog_number |-> k[2],
           title |-> ToString(NextId(d, "compositions"))] : k \in ListedCatalogNumbers}
    ELSE IF w = "parents"
    THEN {[composer_id |-> c, catalog_number |-> None, title |-> t] :
            c \in ParentIds, t \in Titles}
    ELSE CompositionInputs

\* The bodies a client sends to update_composition in a run; a body may
\* carry a sort_order of its own
CompositionUpdateBodies(w) ==
    IF w = "parents"
    THEN {Field("composer_id", c) @@ Field("title", t) :
            c \in {Unset} \cup Supplied({None} \cup {Some(i) : i \in ParentIds}),
            t \in {Unset} \cup Supplied({Some("Mass")})}
    ELSE IF w = "sort_order"
    THEN {Field("catalog_number", n) @@ Field("title", t) @@ Field("sort_order", s) :
            n \in {Unset} \cup Supplied(SortOrderCatalogNumbers),
            t \in {Unset} \cup Supplied({Some("Mass")}),
            s \in {Unset} \cup Supplied({Some(5)})}
    ELSE CompositionUpdateInputs

\* A catalog to delete from: two composers, three compositions, three
\* artists, three recordings and two albums, as the create handlers leave
\* them
DeleteCompositions ==
    <<[composer_id |-> 1, catalog_number |-> None, title |-> "Mass"],
      [composer_id |-> 1, catalog_number |-> Some(<<"K", "1">>), title |-> "Credo"],
      [composer_id |-> 2, catalog_number |-> None, title |-> "Mass"]>>

DeleteRecordings ==
    <<[composition_id |-> 1, year |-> None, artist_ids |-> <<3, 1, 2>>],
      [composition_id |-> 2, year |-> None, artist_ids |-> <<1>>],
      [composition_id |-> 3, year |-> None, artist_ids |-> <<2, 3>>]>>

DeleteAlbums ==
    <<[album_type |-> "LP", discogs_url |-> None, goclassic_url |-> None, memo |-> None,
       recording_ids |-> <<3, 1>>, image_urls |-> <<"cover">>,
       primary_image_index |-> Some(0),
       custom_urls |-> <<[url_name |-> "site", url |-> "u1", url_order |-> 0]>>],
      [album_type |-> "CD", discogs_url |-> None, goclassic_url |-> None, memo |-> None,
       recording_ids |-> <<2, 1>>, image_urls |-> <<>>, primary_image_index |-> None,
       custom_urls |-> <<>>]>>

RECURSIVE DeleteDb(_, _, _, _)
DeleteDb(compositions, artists, recordings, albums) ==
    IF albums > 0
    THEN create_album(DeleteDb(compositions, artists, recordings, albums - 1),
                      DeleteAlbums[albums]).db
    ELSE IF recordings > 0
    THEN create_recording(DeleteDb(compositions, artists, recordings - 1, 0),
                          DeleteRecordings[recordings]).db
    ELSE IF artists > 0
    THEN create_artist(DeleteDb(compositions, artists - 1, 0, 0), ArtistInput(artists)).db
    ELSE IF compositions > 0
    THEN create_composition(DeleteDb(compositions - 1, 0, 0, 0),
                            DeleteCompositions[compositions]).db
    ELSE ComposersDb(MaxComposers)

-----------------------------------------------------------------------------
(* Actions: one per request handler *)

CreateComposer ==
    /\ response = NoResponse
    /\ Room("composers", 1)
    /\ \E composer \in ComposerInputsOf(workload) :
          Request("create_composer", [composer |-> composer], create_composer(db, composer),
                  LAMBDA d : RowResponse(d.composers, create_composer(db, composer).id))

UpdateComposer ==
    /\ response = NoResponse
    /\ workload = "unique_composers"
    /\ \E composer_id \in 1..(MaxComposers + 1), update_data \in ComposerUpdateInputs :
          Request("update_composer",
                  [composer_id |-> composer_id, update_data |-> update_data],
                  update_composer(db, composer_id, update_data),
                  LAMBDA d : RowResponse(d.composers, composer_id))

UpdateArtist ==
    /\ response = NoResponse
    /\ workload = "unique_artists"
    /\ \E artist_id \in 1..(MaxMembers + 1), update_data \in ArtistUpdateInputs :
          Request("update_artist",
                  [artist_id |-> artist_id, update_data |-> update_data],
                  update_artist(db, artist_id, update_data),
                  LAMBDA d : RowResponse(d.artists, artist_id))

CreateArtist ==
    /\ Room("artists", 1)
    /\ \E artist \in ArtistInputsOf(workload, db) :
          Request("create_artist", [artist |-> artist], create_artist(db, artist),
                  LAMBDA d : RowResponse(d.artists, create_artist(db, artist).id))

CreateRecording ==
    /\ Room("recordings", 1)
    /\ \E recording \in RecordingInputs(workload) :
          Request("create_recording", [recording |-> recording],
                  create_recording(db, recording),
                  LAMBDA d : RecordingResponse(d, create_recording(db, recording).id))

ReadRecording ==
    /\ workload = "recording_artists"
    /\ \E recording_id \in OwnerIds :
          Request("read_recording", [recording_id |-> recording_id],
                  read_recording(db, recording_id),
                  LAMBDA d : RecordingResponse(d, recording_id))

UpdateRecording ==
    /\ workload \in {"recording_artists", "parents"}
    /\ \E recording_id \in OwnerIds, update_data \in RecordingUpdateInputsOf(workload) :
          Request("update_recording",
                  [recording_id |-> recording_id, update_data |-> update_data],
                  update_recording(db, recording_id, update_data),
                  LAMBDA d : RecordingResponse(d, recording_id))

CreateAlbum ==
    /\ Room("albums", 1)
    /\ \E album \in AlbumInputs(workload) :
          /\ workload = "album_custom_urls" => Room("album_custom_urls", Len(album.custom_urls))
          /\ workload = "album_images" => Room("album_images", Len(album.image_urls))
          /\ Request("create_album", [album |-> album], create_album(db, album),
                     LAMBDA d : AlbumResponse(d, create_album(db, album).id))

ReadAlbum ==
    /\ workload \in {"album_recordings", "album_custom_urls", "album_images"}
    /\ \E album_id \in AlbumIdsOf(workload) :
          Request("read_album", [album_id |-> album_id], read_album(db, album_id),
                  LAMBDA d : AlbumResponse(d, album_id))

UpdateAlbum ==
    /\ workload \in {"album_recordings", "album_custom_urls", "album_images"}
    /\ \E album_id \in AlbumIdsOf(workload), update_data \in AlbumUpdateInputs(workload) :
          /\ ("custom_urls" \in DOMAIN update_data /\ update_data.custom_urls # None)
                => Room("album_custom_urls", Len(update_data.custom_urls[1]))
          /\ ("image_urls" \in DOMAIN update_data /\ update_data.image_urls # None)
                => Room("album_images", Len(update_data.image_urls[1]))
          /\ Request("update_album",
                     [album_id |-> album_id, update_data |-> update_data],
                     update_album(db, album_id, update_data),
                     LAMBDA d : AlbumResponse(d, album_id))

\* A request that a pre-check turns down inserts nothing and is served
\* whatever the size of the table
CreateComposition ==
    /\ response = NoResponse
    /\ \E composition \in CompositionInputsOf(workload, db) :
          /\ \/ Room("compositions", 1)
             \/ create_composition(db, composition).db = db
          /\ Request("create_composition", [composition |-> composition],
                     create_composition(db, composition),
                     LAMBDA d : RowResponse(d.compositions,
                                            create_composition(db, composition).id))

UpdateComposition ==
    /\ response = NoResponse
    /\ \E composition_id \in CompositionIds, body \in CompositionUpdateBodies(workload) :
          LET update_data == CompositionUpdate(body)
          IN  Request("update_composition",
                      [composition_id |-> composition_id, update_data |-> update_data,
                       body |-> body],
                      update_composition(db, composition_id, update_data),
                      LAMBDA d : RowResponse(d.compositions, composition_id))

-----------------------------------------------------------------------------
(* Specification *)

Init ==
    /\ workload \in Workloads
    /\ db = SeededDb
    /\ response = NoResponse
    /\ sessions = <<>>

Next ==
    \/ CreateArtist
    \/ CreateRecording
    \/ ReadRecording
    \/ UpdateRecording
    \/ CreateAlbum
    \/ ReadAlbum
    \/ UpdateAlbum
    \/ Return

Spec == Init /\ [][Next]_vars

\* The composition handlers over a store of MaxComposers composers
CompositionInit ==
    /\ workload = "compositions"
    /\ db = ComposersDb(MaxComposers)
    /\ response = NoResponse
    /\ sessions = <<>>

CompositionNext ==
    \/ CreateComposition
    \/ UpdateComposition
    \/ Return

CompositionSpec == CompositionInit /\ [][CompositionNext]_vars

\* The compositions of one composer, with catalog numbers of every kind
SortOrderInit ==
    /\ workload = "sort_order"
    /\ db = ComposersDb(1)
    /\ response = NoResponse
    /\ sessions = <<>>

SortOrderSpec == SortOrderInit /\ [][CompositionNext]_vars

\* extract_sort_order on its own, over every short catalog number
CatalogAlphabet == {"K", " ", "0", "1", "9"}
CatalogTexts == {None} \cup {Some(text) : text \in SeqsUpTo(CatalogAlphabet, MaxCatalogLen)}

ExtractSortOrder ==
    /\ response = NoResponse
    /\ \E catalog_number \in CatalogTexts :
          response' = [op |-> "extract_sort_order",
                       args |-> [catalog_number |-> catalog_number],
                       status |-> 0, detail |-> [kind |-> "ok"],
                       body |-> extract_sort_order(catalog_number)]
    /\ UNCHANGED <<db, workload, sessions>>

ExtractInit ==
    /\ workload = "extract_sort_order"
    /\ db = EmptyDb
    /\ response = NoResponse
    /\ sessions = <<>>

ExtractNext ==
    \/ ExtractSortOrder
    \/ Return

ExtractSpec == ExtractInit /\ [][ExtractNext]_vars

\* The ids a client addresses: the rows of the table and one that never
\* existed
IdsOf(d, table) == 1..NextId(d, table)

NoContent(d) == {None}

DeleteComposer ==
    /\ response = NoResponse
    /\ \E composer_id \in IdsOf(db, "composers") :
          Request("delete_composer", [composer_id |-> composer_id],
                  delete_composer(db, composer_id), NoContent)

ReadComposition ==
    /\ response = NoResponse
    /\ \E composition_id \in IdsOf(db, "compositions") :
          Request("read_composition", [composition_id |-> composition_id],
                  read_composition(db, composition_id),
                  LAMBDA d : RowResponse(d.compositions, composition_id))

DeleteComposition ==
    /\ response = NoResponse
    /\ \E composition_id \in IdsOf(db, "compositions") :
          Request("delete_composition", [composition_id |-> composition_id],
                  delete_composition(db, composition_id), NoContent)

DeleteArtist ==
    /\ response = NoResponse
    /\ \E artist_id \in IdsOf(db, "artists") :
          Request("delete_artist", [artist_id |-> artist_id],
                  delete_artist(db, artist_id), NoContent)

DeleteRecording ==
    /\ response = NoResponse
    /\ \E recording_id \in IdsOf(db, "recordings") :
          Request("delete_recording", [recording_id |-> recording_id],
                  delete_recording(db, recording_id), NoContent)

DeleteAlbum ==
    /\ response = NoResponse
    /\ \E album_id \in IdsOf(db, "albums") :
          Request("delete_album", [album_id |-> album_id],
                  delete_album(db, album_id), NoContent)

DeleteInit ==
    /\ workload = "deletes"
    /\ db = DeleteDb(Len(DeleteCompositions), Len(DeleteRecordings), Len(DeleteRecordings),
                     Len(DeleteAlbums))
    /\ response = NoResponse
    /\ sessions = <<>>

DeleteNext ==
    \/ DeleteComposer
    \/ ReadComposition
    \/ DeleteComposition
    \/ DeleteArtist
    \/ DeleteRecording
    \/ DeleteAlbum
    \/ Return

DeleteSpec == DeleteInit /\ [][DeleteNext]_vars

\* The list handlers, each over a table filled by its create handler
ListWorkloads ==
    {"list_artists", "list_composers", "list_compositions", "list_recordings", "list_albums"}

\* The store a run starts from: what the rows to create refer to
ListDb(w) ==
    CASE w = "list_compositions" -> ComposersDb(MaxComposers)
      [] w = "list_recordings" -> DeleteDb(Len(DeleteCompositions), Len(DeleteRecordings), 0, 0)
      [] w = "list_albums" ->
            DeleteDb(Len(DeleteCompositions), Len(DeleteRecordings), Len(DeleteRecordings), 0)
      [] OTHER -> EmptyDb

\* skip and limit as a client pages through a table, and the default limit
Skips == 0..MaxListed
Limits == {1, 2, DEFAULT_LIMIT}

\* An id parameter: not sent, or the id of a row
IdFilters == {None, Some(1)}

\* The search texts a client sends: none, empty, parts of names and titles
\* in either case, a text no record holds, and the characters % and _
SearchWorkloads == {"search_artists", "search_composers", "search_compositions"}

SearchTexts ==
    {None, Some(<<>>), Some(<<"a", "s">>), Some(<<"D">>), Some(<<"k">>), Some(<<"2">>),
     Some(<<"x">>), Some(<<"_">>), Some(<<"%">>), Some(<<"a", "_", "s">>)}

SearchesOf(w) == IF w \in SearchWorkloads THEN SearchTexts ELSE {None}

ReadArtists ==
    /\ response = NoResponse
    /\ workload \in {"list_artists", "recording_count", "search_artists"}
    /\ \E skip \in Skips, limit \in Limits, search \in SearchesOf(workload) :
          /\ search # None => (skip = 0 /\ limit = DEFAULT_LIMIT)
          /\ Request("read_artists", [skip |-> skip, limit |-> limit, search |-> search],
                     Ok(db), LAMBDA d : read_artists(d, skip, limit, search))

ReadComposers ==
    /\ response = NoResponse
    /\ workload \in {"list_composers", "search_composers"}
    /\ \E skip \in Skips, limit \in Limits, search \in SearchesOf(workload) :
          /\ search # None => (skip = 0 /\ limit = DEFAULT_LIMIT)
          /\ Request("read_composers", [skip |-> skip, limit |-> limit, search |-> search],
                     Ok(db), LAMBDA d : read_composers(d, skip, limit, search))

ReadCompositions ==
    /\ response = NoResponse
    /\ workload \in {"list_compositions", "recording_count", "search_compositions"}
    /\ \E skip \in Skips, limit \in Limits, composer_id \in IdFilters,
          search \in SearchesOf(workload) :
          /\ search # None => (skip = 0 /\ limit = DEFAULT_LIMIT)
          /\ Request("read_compositions",
                     [skip |-> skip, limit |-> limit, composer_id |-> composer_id,
                      search |-> search], Ok(db),
                     LAMBDA d : read_compositions(d, skip, limit, composer_id, search))

ReadRecordings ==
    /\ response = NoResponse
    /\ workload = "list_recordings"
    /\ \E skip \in Skips, limit \in Limits,
          filter \in {<<None, None, None>>, <<Some(1), None, None>>,
                      <<None, Some(1), None>>, <<None, None, Some(1)>>} :
          Request("read_recordings",
                  [skip |-> skip, limit |-> limit, composition_id |-> filter[1],
                   composer_id |-> filter[2], artist_id |-> filter[3]], Ok(db),
                  LAMBDA d : read_recordings(d, skip, limit, filter[1], filter[2], filter[3]))

ReadAlbums ==
    /\ response = NoResponse
    /\ workload = "list_albums"
    /\ \E skip \in Skips, limit \in Limits, album_type \in {None, Some("LP")} :
          Request("read_albums",
                  [skip |-> skip, limit |-> limit, album_type |-> album_type], Ok(db),
                  LAMBDA d : read_albums(d, skip, limit, album_type))

ListInit ==
    /\ workload \in ListWorkloads
    /\ db = ListDb(workload)
    /\ response = NoResponse
    /\ sessions = <<>>

ListNext ==
    \/ CreateComposer
    \/ CreateArtist
    \/ CreateComposition
    \/ CreateRecording
    \/ CreateAlbum
    \/ ReadArtists
    \/ ReadComposers
    \/ ReadCompositions
    \/ ReadRecordings
    \/ ReadAlbums
    \/ Return

ListSpec == ListInit /\ [][ListNext]_vars

\* Artists and compositions listed with the number of their recordings
CountInit ==
    /\ workload = "recording_count"
    /\ db = DeleteDb(Len(DeleteCompositions), 0, 0, 0)
    /\ response = NoResponse
    /\ sessions = <<>>

CountNext ==
    \/ CreateArtist
    \/ CreateRecording
    \/ ReadArtists
    \/ ReadCompositions
    \/ Return

CountSpec == CountInit /\ [][CountNext]_vars

\* The list handlers with a search text
SearchInit ==
    /\ workload \in SearchWorkloads
    /\ db = IF workload = "search_compositions" THEN ComposersDb(MaxComposers) ELSE EmptyDb
    /\ response = NoResponse
    /\ sessions = <<>>

SearchNext ==
    \/ CreateComposer
    \/ CreateArtist
    \/ CreateComposition
    \/ ReadArtists
    \/ ReadComposers
    \/ ReadCompositions
    \/ Return

SearchSpec == SearchInit /\ [][SearchNext]_vars

\* The handlers of the records that carry a unique name: composers,
\* artists, and the compositions of MaxComposers composers
UniqueWorkloads == {"unique_composers", "unique_artists", "compositions"}

UniqueInit ==
    /\ workload \in UniqueWorkloads
    /\ db = IF workload = "compositions" THEN ComposersDb(MaxComposers) ELSE EmptyDb
    /\ response = NoResponse
    /\ sessions = <<>>

UniqueNext ==
    \/ CreateComposer
    \/ UpdateComposer
    \/ CreateArtist
    \/ UpdateArtist
    \/ (workload = "compositions" /\ CreateComposition)
    \/ (workload = "compositions" /\ UpdateComposition)
    \/ Return

UniqueSpec == UniqueInit /\ [][UniqueNext]_vars

\* The album handlers with images, next to an album that has a primary
\* image, recordings and a custom URL
AlbumImagesInit ==
    /\ workload = "album_images"
    /\ db = DeleteDb(Len(DeleteCompositions), Len(DeleteRecordings), Len(DeleteRecordings), 1)
    /\ response = NoResponse
    /\ sessions = <<>>

AlbumImagesNext ==
    \/ CreateAlbum
    \/ ReadAlbum
    \/ UpdateAlbum
    \/ Return

AlbumImagesSpec == AlbumImagesInit /\ [][AlbumImagesNext]_vars

\* Every update handler, each on the store its workload starts from
UpdateWorkloads == UniqueWorkloads \cup {"recording_artists", "album_images"}

UpdateInit ==
    /\ workload \in UpdateWorkloads
    /\ db = IF workload = "compositions" THEN ComposersDb(MaxComposers)
            ELSE IF workload = "recording_artists" THEN SeededDb
            ELSE IF workload = "album_images"
            THEN DeleteDb(Len(DeleteCompositions), Len(DeleteRecordings),
                          Len(DeleteRecordings), 1)
            ELSE EmptyDb
    /\ response = NoResponse
    /\ sessions = <<>>

UpdateNext ==
    \/ CreateComposer
    \/ UpdateComposer
    \/ (workload \in {"unique_artists", "recording_artists"} /\ CreateArtist)
    \/ UpdateArtist
    \/ (workload = "compositions" /\ CreateComposition)
    \/ (workload = "compositions" /\ UpdateComposition)
    \/ (workload = "recording_artists" /\ CreateRecording)
    \/ UpdateRecording
    \/ CreateAlbum
    \/ UpdateAlbum
    \/ Return

UpdateSpec == UpdateInit /\ [][UpdateNext]_vars

\* Compositions and recordings created and updated under parents that
\* exist and parents that do not, over a store of MaxComposers composers
ParentInit ==
    /\ workload = "parents"
    /\ db = ComposersDb(MaxComposers)
    /\ response = NoResponse
    /\ sessions = <<>>

ParentNext ==
    \/ CreateComposition
    \/ UpdateComposition
    \/ CreateRecording
    \/ UpdateRecording
    \/ Return

ParentSpec == ParentInit /\ [][ParentNext]_vars

-----------------------------------------------------------------------------
(* Requests served concurrently *)

(***************************************************************************)
(* Each client has one request in flight, served in a session of its own. *)
(* A handler advances one statement at a time: a query reads the          *)
(* committed store, a write stays in the session's transaction until the  *)
(* handler commits, and a session that ends without a commit discards its *)
(* transaction.                                                            *)
(***************************************************************************)

Clients == 1..MaxSessions

\* The uncommitted writes of a session, per link table: the owners whose
\* rows it has deleted and the rows it has inserted
NoTransaction ==
    [recording_artists |-> [deleted |-> {}, inserted |-> {}],
     album_recordings |-> [deleted |-> {}, inserted |-> {}]]

IdleSession ==
    [pc |-> "idle", op |-> "none", args |-> <<>>, i |-> 0, tx |-> NoTransaction,
     status |-> 0, detail |-> [kind |-> "ok"], body |-> None]

\* The store as the session sees it, and as it becomes when the session's
\* transaction is committed
flush(d, tx) ==
    [d EXCEPT
        !.recording_artists =
            {l \in @ : l.recording_id \notin tx.recording_artists.deleted}
                \cup tx.recording_artists.inserted,
        !.album_recordings =
            {l \in @ : l.album_id \notin tx.album_recordings.deleted}
                \cup tx.album_recordings.inserted]

\* Variant: every statement committed as soon as it is executed
Session_execute_autocommit(d, tx) == [db |-> flush(d, tx), tx |-> NoTransaction]

\* db.execute(statement) in a session with autocommit off: the store is
\* untouched, the write is pending in the transaction
Session_execute(d, tx) == [db |-> d, tx |-> tx]

\* Another session holds uncommitted writes on the owner's link rows: the
\* statement waits for that session to end
Locked(c, table, owner) ==
    \E o \in Clients \ {c} : owner \in sessions[o].tx[table].deleted

\* The session ends: the response is kept, the transaction is gone
Finish(c, status_code, detail, body) ==
    sessions' = [sessions EXCEPT ![c].pc = "done", ![c].status = status_code,
                                 ![c].detail = detail, ![c].body = body,
                                 ![c].tx = NoTransaction]

Goto(c, pc) == sessions' = [sessions EXCEPT ![c].pc = pc]

Creates == {"create_composer", "create_artist", "create_composition"}
Updates == {"update_recording", "update_album"}
Reads == {"read_recording", "read_album"}

ConcurrentWorkloads == {"concurrent_creates", "concurrent_recordings", "concurrent_albums"}

\* Two artists, two recordings and an album of both, as the create handlers
\* leave them: recording 1 has the artists <<1, 2>>, album 1 the
\* recordings <<1, 2>>
ConcurrentDb ==
    LET d1 == create_artist(SeededDb, ArtistInput(1)).db
        d2 == create_artist(d1, ArtistInput(2)).db
        d3 == create_recording(d2, [composition_id |-> 1, year |-> None,
                                    artist_ids |-> <<1, 2>>]).db
        d4 == create_recording(d3, [composition_id |-> 1, year |-> None,
                                    artist_ids |-> <<2>>]).db
    IN  create_album(d4, [album_type |-> "LP", discogs_url |-> None,
                          goclassic_url |-> None, memo |-> None,
                          recording_ids |-> <<1, 2>>, image_urls |-> <<>>,
                          primary_image_index |-> None, custom_urls |-> <<>>]).db

ComposerNamed(full_name, name) ==
    [full_name |-> Some(full_name), name |-> Some(name), birth_year |-> None,
     death_year |-> None, nationality |-> None, image_url |-> None]

\* What the clients send: creates that collide on a unique name, and
\* replacements of the list of one owner next to reads of it
ConcurrentRequests(w) ==
    CASE w = "concurrent_creates" ->
            {[op |-> "create_composer", args |-> [composer |-> c]] :
                c \in {ComposerNamed("Ludwig van Beethoven", "Beethoven"),
                       ComposerNamed("Ludwig van Beethoven", "Ludwig"),
                       ComposerNamed("L. v. Beethoven", "Beethoven")}}
            \cup {[op |-> "create_artist", args |-> [artist |-> ArtistInput(1)]]}
            \cup {[op |-> "create_composition",
                   args |-> [composition |->
                                [composer_id |-> 1, catalog_number |-> n, title |-> "Credo"]]] :
                    n \in {None, Some(<<"K", "1">>)}}
      [] w = "concurrent_recordings" ->
            {[op |-> "update_recording",
              args |-> [recording_id |-> 1,
                        update_data |-> Field("artist_ids", <<TRUE, Some(l)>>)
                                           @@ Field("composition_id", n)]] :
                l \in {<<2, 1>>, <<2>>}, n \in {Unset, <<TRUE, Some(2)>>}}
            \cup {[op |-> "read_recording", args |-> [recording_id |-> 1]]}
      [] w = "concurrent_albums" ->
            {[op |-> "update_album",
              args |-> [album_id |-> 1,
                        update_data |-> Field("recording_ids", <<TRUE, Some(l)>>)]] :
                l \in {<<2, 1>>, <<2>>}}
            \cup {[op |-> "read_album", args |-> [album_id |-> 1]]}

\* The request reaches its handler
Begin(c) ==
    /\ sessions[c].pc = "idle"
    /\ \E request \in ConcurrentRequests(workload) :
          sessions' = [sessions EXCEPT
                          ![c].op = request.op, ![c].args = request.args, ![c].i = 1,
                          ![c].pc = CASE request.op \in Creates -> "check"
                                      [] request.op \in Updates -> "load"
                                      [] request.op \in Reads -> "read"]
    /\ UNCHANGED <<db, response, workload>>

ChecksOf(s, d) ==
    CASE s.op = "create_composer" -> create_composer_checks(d, s.args.composer)
      [] s.op = "create_artist" -> create_artist_checks(d, s.args.artist)
      [] s.op = "create_composition" -> create_composition_checks(d, s.args.composition)

AddOf(s, d) ==
    CASE s.op = "create_composer" -> add_composer(d, s.args.composer)
      [] s.op = "create_artist" -> add_artist(d, s.args.artist)
      [] s.op = "create_composition" -> add_composition(d, s.args.composition)

CreatedRows(s, d) ==
    CASE s.op = "create_composer" -> d.composers
      [] s.op = "create_artist" -> d.artists
      [] s.op = "create_composition" -> d.compositions

\* A create handler issues its next existence query
CreateCheck(c) ==
    LET s == sessions[c]
        checks == ChecksOf(s, db)
    IN  /\ s.pc = "check"
        /\ IF checks[s.i].found
           THEN Finish(c, checks[s.i].status_code, checks[s.i].detail, None)
           ELSE IF s.i = Len(checks) THEN Goto(c, "add")
           ELSE sessions' = [sessions EXCEPT ![c].i = s.i + 1]
        /\ UNCHANGED <<db, response, workload>>

\* A create handler adds its row and commits
CreateCommit(c) ==
    LET s == sessions[c]
        res == AddOf(s, db)
    IN  /\ s.pc = "add"
        /\ db' = get_db(db, res)
        /\ \E body \in (IF Succeeded(res) THEN RowResponse(CreatedRows(s, db'), res.id)
                         ELSE {None}) :
              Finish(c, res.status, res.detail, body)
        /\ UNCHANGED <<response, workload>>

IsRecording(s) == s.op \in {"update_recording", "read_recording"}
OwnerId(s) == IF IsRecording(s) THEN s.args.recording_id ELSE s.args.album_id
Owners(s, d) == IF IsRecording(s) THEN d.recordings ELSE d.albums
LinkTable(s) == IF IsRecording(s) THEN "recording_artists" ELSE "album_recordings"
ListKey(s) == IF IsRecording(s) THEN "artist_ids" ELSE "recording_ids"
NewList(s) == s.args.update_data[ListKey(s)][1]
Responses(s, d) ==
    IF IsRecording(s) THEN RecordingResponse(d, OwnerId(s)) ELSE AlbumResponse(d, OwnerId(s))

\* read_recording / read_album: one query with its joined loads
Read(c) ==
    LET s == sessions[c]
        res == IF IsRecording(s) THEN read_recording(db, OwnerId(s))
               ELSE read_album(db, OwnerId(s))
    IN  /\ s.pc = "read"
        /\ \E body \in (IF Succeeded(res) THEN Responses(s, db) ELSE {None}) :
              Finish(c, res.status, res.detail, body)
        /\ UNCHANGED <<db, response, workload>>

\* update_recording / update_album: the query for the row to update
UpdateLoad(c) ==
    LET s == sessions[c]
    IN  /\ s.pc = "load"
        /\ IF {r \in Owners(s, db) : r.id = OwnerId(s)} = {}
           THEN Finish(c, HTTP_404_NOT_FOUND,
                       [kind |-> IF IsRecording(s) THEN "Recording not found"
                                 ELSE "Album not found"], None)
           ELSE IF IsSupplied(s.args.update_data, ListKey(s)) THEN Goto(c, "validate")
           ELSE Goto(c, IF IsRecording(s) THEN "composition" ELSE "commit")
        /\ UNCHANGED <<db, response, workload>>

\* the query that verifies the ids of the new list
UpdateValidate(c) ==
    LET s == sessions[c]
        check == IF IsRecording(s) THEN missing_artist_ids(db, NewList(s))
                 ELSE missing_recording_ids(db, NewList(s))
    IN  /\ s.pc = "validate"
        /\ IF check.mismatch
           THEN Finish(c, HTTP_404_NOT_FOUND,
                       [kind |-> IF IsRecording(s) THEN "Artists not found"
                                 ELSE "Recordings not found",
                        ids |-> check.missing_ids], None)
           ELSE Goto(c, "delete")
        /\ UNCHANGED <<response, workload, db>>

\* db.execute(delete of the owner's link rows)
UpdateDelete(c) ==
    LET s == sessions[c]
        tx == [s.tx EXCEPT ![LinkTable(s)].deleted = @ \cup {OwnerId(s)}]
        executed == Session_execute(db, tx)
    IN  /\ s.pc = "delete"
        /\ ~Locked(c, LinkTable(s), OwnerId(s))
        /\ db' = executed.db
        /\ sessions' = [sessions EXCEPT
                            ![c].tx = executed.tx, ![c].i = 1,
                            ![c].pc = IF NewList(s) # <<>> THEN "insert"
                                      ELSE IF IsRecording(s) THEN "composition"
                                      ELSE "commit"]
        /\ UNCHANGED <<response, workload>>

\* db.execute(insert of the link row of the i-th id of the new list)
UpdateInsert(c) ==
    LET s == sessions[c]
        rows == IF IsRecording(s) THEN recording_artists_rows(OwnerId(s), NewList(s))
                ELSE album_recordings_rows(OwnerId(s), NewList(s))
        row == CHOOSE r \in rows :
                  (IF IsRecording(s) THEN r.artist_order ELSE r.recording_order) = s.i - 1
        view == flush(db, s.tx)
        refused == IF IsRecording(s)
                   THEN recording_artists_refused(view, OwnerId(s), <<NewList(s)[s.i]>>)
                   ELSE album_recordings_refused(view, OwnerId(s), <<NewList(s)[s.i]>>)
        tx == [s.tx EXCEPT ![LinkTable(s)].inserted = @ \cup {row}]
        executed == Session_execute(db, tx)
    IN  /\ s.pc = "insert"
        /\ ~Locked(c, LinkTable(s), OwnerId(s))
        /\ IF refused
           THEN /\ Finish(c, HTTP_500_INTERNAL_SERVER_ERROR, [kind |-> "IntegrityError"], None)
                /\ db' = db
           ELSE /\ db' = executed.db
                /\ sessions' = [sessions EXCEPT
                                    ![c].tx = executed.tx, ![c].i = s.i + 1,
                                    ![c].pc = IF s.i < Len(NewList(s)) THEN "insert"
                                              ELSE IF IsRecording(s) THEN "composition"
                                              ELSE "commit"]
        /\ UNCHANGED <<response, workload>>

\* update_recording: the query that verifies a new composition_id
UpdateComposition_check(c) ==
    LET s == sessions[c]
        update_data == s.args.update_data
    IN  /\ s.pc = "composition"
        /\ IF /\ IsSupplied(update_data, "composition_id")
              /\ {x \in db.compositions : Some(x.id) = update_data.composition_id} = {}
           THEN Finish(c, HTTP_404_NOT_FOUND,
                       [kind |-> "Composition not found",
                        ids |-> Range(update_data.composition_id)], None)
           ELSE Goto(c, "commit")
        /\ UNCHANGED <<db, response, workload>>

\* setattr of the remaining fields and db.commit(): the transaction
\* becomes the content of the store
UpdateCommit(c) ==
    LET s == sessions[c]
        rest == Restrict(s.args.update_data,
                         DOMAIN s.args.update_data \ {"artist_ids", "recording_ids"})
        flushed == flush(db, s.tx)
        updated == IF IsRecording(s)
                   THEN [flushed EXCEPT !.recordings =
                           {IF r.id = OwnerId(s) THEN setattr(r, rest) ELSE r : r \in @}]
                   ELSE [flushed EXCEPT !.albums =
                           {IF r.id = OwnerId(s) THEN setattr(r, rest) ELSE r : r \in @}]
        res == commit(updated, HTTP_200_OK, OwnerId(s))
    IN  /\ s.pc = "commit"
        /\ db' = get_db(db, res)
        /\ IF res.commit
           THEN sessions' = [sessions EXCEPT ![c].pc = "refresh", ![c].tx = NoTransaction,
                                            ![c].status = res.status]
           ELSE Finish(c, res.status, res.detail, None)
        /\ UNCHANGED <<response, workload>>

\* db.refresh and the loads of the response model
UpdateRefresh(c) ==
    LET s == sessions[c]
    IN  /\ s.pc = "refresh"
        /\ \E body \in Responses(s, db) : Finish(c, s.status, s.detail, body)
        /\ UNCHANGED <<db, response, workload>>

ConcurrentInit ==
    /\ workload \in ConcurrentWorkloads
    /\ db = IF workload = "concurrent_creates" THEN SeededDb ELSE ConcurrentDb
    /\ response = NoResponse
    /\ sessions = [c \in Clients |-> IdleSession]

ConcurrentNext ==
    \E c \in Clients :
        \/ Begin(c)
        \/ CreateCheck(c)
        \/ CreateCommit(c)
        \/ Read(c)
        \/ UpdateLoad(c)
        \/ UpdateValidate(c)
        \/ UpdateDelete(c)
        \/ UpdateInsert(c)
        \/ UpdateComposition_check(c)
        \/ UpdateCommit(c)
        \/ UpdateRefresh(c)

ConcurrentSpec == ConcurrentInit /\ [][ConcurrentNext]_vars

-----------------------------------------------------------------------------
(* Properties *)

Ids(rows) == [i \in DOMAIN rows |-> rows[i].id]

\* The last request stored an ordered artist list / recording list / custom
\* URL list, and the list it stored
RecordingListWritten(r) ==
    /\ r.op \in {"create_recording", "update_recording"}
    /\ Succeeded(r)
    /\ r.op = "update_recording" => IsSupplied(r.args.update_data, "artist_ids")

RecordingListOf(r) ==
    IF r.op = "create_recording" THEN r.args.recording.artist_ids
    ELSE r.args.update_data.artist_ids[1]

AlbumListWritten(r) ==
    /\ r.op \in {"create_album", "update_album"}
    /\ Succeeded(r)
    /\ r.op = "update_album" => IsSupplied(r.args.update_data, "recording_ids")

AlbumListOf(r) ==
    IF r.op = "create_album" THEN r.args.album.recording_ids
    ELSE r.args.update_data.recording_ids[1]

CustomUrlsWritten(r) ==
    /\ r.op \in {"create_album", "update_album"}
    /\ Succeeded(r)
    /\ r.op = "update_album" => IsSupplied(r.args.update_data, "custom_urls")

CustomUrlsOf(r) ==
    IF r.op = "create_album" THEN r.args.album.custom_urls
    ELSE r.args.update_data.custom_urls[1]

\* C1: after a successful create_recording / update_recording with
\* artist_ids = S, read_recording returns the artists in exactly the order
\* of S; after a successful create_album / update_album with
\* recording_ids = S, read_album returns the recordings in the order of S.
C1_ReadBackInInputOrder ==
    /\ RecordingListWritten(response) =>
          /\ read_recording(db, response.body.id).status = HTTP_200_OK
          /\ \A body \in RecordingResponse(db, response.body.id) :
                Ids(body.artists) = RecordingListOf(response)
    /\ AlbumListWritten(response) =>
          /\ read_album(db, response.body.id).status = HTTP_200_OK
          /\ \A body \in AlbumResponse(db, response.body.id) :
                Ids(body.recordings) = AlbumListOf(response)

\* An update stored the artists <<2, 1>>: the later-created artist first
C1_Witness ==
    /\ RecordingListWritten(response)
    /\ response.op = "update_recording"
    /\ RecordingListOf(response) = <<2, 1>>

\* The request being answered is an update_recording whose artist_ids are
\* distinct existing artists and whose composition_id names no composition
ValidArtistsBadComposition(d, r) ==
    /\ r.op = "update_recording"
    /\ IsSupplied(r.args.update_data, "artist_ids")
    /\ LET l == r.args.update_data.artist_ids[1]
       IN  /\ \A i \in DOMAIN l : \E a \in d.artists : a.id = l[i]
           /\ \A i, j \in DOMAIN l : i # j => l[i] # l[j]
    /\ IsSupplied(r.args.update_data, "composition_id")
    /\ \A c \in d.compositions : Some(c.id) # r.args.update_data.composition_id

\* C2: update_recording with a valid new artist_ids list and a composition_id
\* that does not exist fails with NotFound and leaves the stored artist
\* links (and so their order) as they were before the call.
C2_FailedUpdateKeepsArtistLinks ==
    [][ValidArtistsBadComposition(db, response') =>
          /\ response'.status = HTTP_404_NOT_FOUND
          /\ db'.recording_artists = db.recording_artists]_vars

\* Such an update was refused for its composition while it asked for an
\* artist list other than the stored one
C2_Witness ==
    /\ response.op = "update_recording"
    /\ response.status = HTTP_404_NOT_FOUND
    /\ response.detail.kind = "Composition not found"
    /\ ValidArtistsBadComposition(db, response)
    /\ response.args.update_data.artist_ids[1] = <<2, 1>>
    /\ \E body \in RecordingResponse(db, response.args.recording_id) :
          Ids(body.artists) = <<1, 2>>

\* C3: create_recording whose artist_ids holds an id of no existing artist
\* fails with NotFound and leaves the store as it was: no recording row, no
\* link row.
C3_CreateWithMissingArtistChangesNothing ==
    [][(/\ response'.op = "create_recording"
        /\ \E i \in DOMAIN response'.args.recording.artist_ids :
              \A a \in db.artists : a.id # response'.args.recording.artist_ids[i])
       => (response'.status = HTTP_404_NOT_FOUND /\ db' = db)]_vars

\* A create naming one existing and one missing artist was refused for its
\* artists
C3_Witness ==
    /\ response.op = "create_recording"
    /\ response.status = HTTP_404_NOT_FOUND
    /\ response.detail.kind = "Artists not found"
    /\ \E i, j \in DOMAIN response.args.recording.artist_ids :
          /\ \E a \in db.artists : a.id = response.args.recording.artist_ids[i]
          /\ \A a \in db.artists : a.id # response.args.recording.artist_ids[j]

\* The id list of the request and the table its ids refer to
ReferencedIds(r) ==
    CASE r.op = "create_recording" -> Range(r.args.recording.artist_ids)
      [] r.op = "update_recording" -> Range(r.args.update_data.artist_ids[1])
      [] r.op = "create_album" -> Range(r.args.album.recording_ids)
      [] r.op = "update_album" -> Range(r.args.update_data.recording_ids[1])

ReferencedTable(d, r) ==
    IF r.op \in {"create_recording", "update_recording"} THEN d.artists ELSE d.recordings

\* C4: whenever a create or update of a recording or an album fails with the
\* referenced-entity NotFound error, the ids named in the error are exactly
\* the input ids that resolve to no existing entity, and there is at least
\* one, also for lists that repeat an id.
C4_ErrorNamesExactlyTheMissingIds ==
    (/\ response.status = HTTP_404_NOT_FOUND
     /\ response.detail.kind \in {"Artists not found", "Recordings not found"})
    => /\ response.detail.ids =
             {id \in ReferencedIds(response) :
                \A x \in ReferencedTable(db, response) : x.id # id}
       /\ response.detail.ids # {}

\* The content of a custom URL record or row
UrlContent(u) == [url_name |-> u.url_name, url |-> u.url]
UrlContents(us) == [i \in DOMAIN us |-> UrlContent(us[i])]

\* C5 (as stated): after create_album / update_album with custom_urls
\* u0..u(n-1), the URL stored for u(i) has position i and read_album returns
\* the custom URLs in the input order, whatever url_order the caller sent.
C5_PositionIsIndex ==
    CustomUrlsWritten(response) =>
        \A body \in AlbumResponse(db, response.body.id) :
            /\ UrlContents(body.custom_urls) = UrlContents(CustomUrlsOf(response))
            /\ \A i \in DOMAIN body.custom_urls : body.custom_urls[i].url_order = i - 1

\* C5 (amended): the URL stored for u(i) carries the url_order the caller
\* sent in u(i); read_album returns the stored URLs by ascending url_order,
\* which is the input order when the url_order values sent increase strictly
\* along the input.
C5_PositionIsSuppliedUrlOrder ==
    CustomUrlsWritten(response) =>
        LET us == CustomUrlsOf(response)
            rows == {r \in db.album_custom_urls : r.album_id = response.body.id}
        IN  /\ \A stored \in OrderBy(rows, LAMBDA r : r.id) :
                  /\ Len(stored) = Len(us)
                  /\ \A i \in DOMAIN us :
                        /\ UrlContent(stored[i]) = UrlContent(us[i])
                        /\ stored[i].url_order = us[i].url_order
            /\ \A body \in AlbumResponse(db, response.body.id) :
                  /\ Range(body.custom_urls) = rows
                  /\ \A i, j \in DOMAIN body.custom_urls :
                        i < j => body.custom_urls[i].url_order <= body.custom_urls[j].url_order
                  /\ (\A i, j \in DOMAIN us : i < j => us[i].url_order < us[j].url_order)
                        => UrlContents(body.custom_urls) = UrlContents(us)

\* Two custom URLs were stored whose url_order runs against the input order
C5_Witness ==
    /\ CustomUrlsWritten(response)
    /\ Len(CustomUrlsOf(response)) = 2
    /\ CustomUrlsOf(response)[1].url_order > CustomUrlsOf(response)[2].url_order
    /\ CustomUrlsOf(response)[1].url # CustomUrlsOf(response)[2].url

\* C6: update_recording with the same ordered artist_ids (update_album with
\* the same ordered recording_ids) applied a second time succeeds and leaves
\* the same association rows (owner id, referenced id, position) as the
\* first application did.
C6_SecondApplicationChangesNoLink ==
    /\ (response.op = "update_recording" /\ RecordingListWritten(response)) =>
          LET again == update_recording(db, response.args.recording_id,
                                        response.args.update_data)
          IN  /\ Succeeded(again)
              /\ get_db(db, again).recording_artists = db.recording_artists
    /\ (response.op = "update_album" /\ AlbumListWritten(response)) =>
          LET again == update_album(db, response.args.album_id, response.args.update_data)
          IN  /\ Succeeded(again)
              /\ get_db(db, again).album_recordings = db.album_recordings

\* An update stored the recordings <<2, 1>> in an album
C6_Witness ==
    /\ response.op = "update_album"
    /\ AlbumListWritten(response)
    /\ AlbumListOf(response) = <<2, 1>>

-----------------------------------------------------------------------------
(* Properties of the composition handlers *)

SameComposerAndTitle(x, y) == x.composer_id = y.composer_id /\ x.title = y.title

SameComposerAndCatalogNumber(x, y) ==
    /\ x.composer_id = y.composer_id
    /\ x.catalog_number # None
    /\ x.catalog_number = y.catalog_number

\* C9: after any sequence of create_composition and update_composition
\* calls, no two compositions have the same (composer_id, title), and no two
\* have the same (composer_id, catalog_number) when the catalog number is
\* present.
C9_CompositionsUnique ==
    \A x, y \in db.compositions :
        x.id # y.id => ~SameComposerAndTitle(x, y) /\ ~SameComposerAndCatalogNumber(x, y)

\* An update that moves a composition to another composer, with no title in
\* the payload, was refused by the store because the other composer has
\* that title already
C9_Witness ==
    /\ response.op = "update_composition"
    /\ DOMAIN response.args.update_data = {"composer_id"}
    /\ response.status = HTTP_500_INTERNAL_SERVER_ERROR
    /\ \E x, y \in db.compositions :
          /\ x.id = response.args.composition_id
          /\ y.composer_id = response.args.update_data.composer_id
          /\ y.title = x.title
          /\ x.composer_id # y.composer_id

\* C10: create_composition with a (composer_id, title) that an existing
\* composition has fails with 400 and stores nothing; create_composition
\* with a title that only compositions of other composers have, for an
\* existing composer (and a catalog number that composer does not use yet),
\* succeeds and stores the composition.
C10_DuplicateTitleIsPerComposer ==
    [][(response.op = "none" /\ response'.op = "create_composition") =>
        LET composition == response'.args.composition
            own == {c \in db.compositions : c.composer_id = Some(composition.composer_id)}
            others == db.compositions \ own
            title_taken == \E c \in own : c.title = Some(composition.title)
            catalog_taken == /\ composition.catalog_number # None
                             /\ \E c \in own : c.catalog_number = composition.catalog_number
        IN  /\ title_taken =>
                /\ response'.status = HTTP_400_BAD_REQUEST
                /\ response'.detail.kind = "Composition title exists"
                /\ db'.compositions = db.compositions
            /\ ( /\ \E c \in db.composers : c.id = composition.composer_id
                 /\ \E c \in others : c.title = Some(composition.title)
                 /\ ~title_taken
                 /\ ~catalog_taken ) =>
                /\ response'.status = HTTP_201_CREATED
                /\ \E c \in db'.compositions \ db.compositions :
                      /\ c.composer_id = Some(composition.composer_id)
                      /\ c.title = Some(composition.title)
                      /\ db'.compositions = db.compositions \cup {c}
    ]_vars

\* The same title is stored under two composers, and a further create with
\* that title for one of them has just been refused
C10_Witness ==
    /\ response.op = "create_composition"
    /\ response.status = HTTP_400_BAD_REQUEST
    /\ response.detail.kind = "Composition title exists"
    /\ \E x, y \in db.compositions :
          /\ x.title = Some(response.args.composition.title)
          /\ y.title = x.title
          /\ x.composer_id = Some(response.args.composition.composer_id)
          /\ y.composer_id # x.composer_id

-----------------------------------------------------------------------------
(* Properties of concurrent requests *)

\* The sessions that have committed a replacement of the list of the owner
\* that session s reads
CommittedWriters(s) ==
    {o \in Clients :
        /\ sessions[o].op \in Updates
        /\ IsRecording(sessions[o]) = IsRecording(s)
        /\ OwnerId(sessions[o]) = OwnerId(s)
        /\ sessions[o].pc \in {"refresh", "done"}
        /\ sessions[o].status = HTTP_200_OK}

\* The list the owner had before any replacement
OldList(s) ==
    IF IsRecording(s)
    THEN {Ids(b.artists) : b \in RecordingResponse(ConcurrentDb, OwnerId(s))}
    ELSE {Ids(b.recordings) : b \in AlbumResponse(ConcurrentDb, OwnerId(s))}

ListRead(s) == IF IsRecording(s) THEN Ids(s.body.artists) ELSE Ids(s.body.recordings)

\* C7: a read_recording / read_album served at any point of a concurrent
\* update_recording / update_album returns the complete list the owner had
\* before or the complete list of an update that has committed, never an
\* empty or partly inserted list.
C7_ReaderSeesOldOrNewList ==
    \A c \in DOMAIN sessions :
        LET s == sessions[c]
        IN  (s.pc = "done" /\ s.op \in Reads) =>
                /\ s.status = HTTP_200_OK
                /\ ListRead(s) \in OldList(s) \cup {NewList(sessions[o]) : o \in CommittedWriters(s)}

\* A read has been answered with the old list while an update of the same
\* owner has deleted the old rows and inserted the first of two new ones
C7_Witness ==
    \E c, o \in DOMAIN sessions :
        /\ sessions[c].pc = "done" /\ sessions[c].op \in Reads
        /\ ListRead(sessions[c]) = <<1, 2>>
        /\ sessions[o].op \in Updates
        /\ sessions[o].pc = "insert" /\ sessions[o].i = 2
        /\ NewList(sessions[o]) = <<2, 1>>

UniqueName(s) ==
    CASE s.op = "create_composer" -> {<<"full_name", s.args.composer.full_name>>,
                                      <<"name", s.args.composer.name>>}
      [] s.op = "create_artist" -> {<<"artist", s.args.artist.name>>}
      [] s.op = "create_composition" ->
            {<<"title", s.args.composition.composer_id, s.args.composition.title>>}
      [] OTHER -> {}

\* C8: whatever the interleaving of concurrent creates with the same unique
\* name (composer full_name or short name, artist name, composition title
\* of a composer), at most one record with that name is stored and at most
\* one of the requests succeeds.
C8_AtMostOneRecordPerName ==
    /\ \A x, y \in db.composers :
          x.id # y.id => x.full_name # y.full_name /\ x.name # y.name
    /\ \A x, y \in db.artists : x.id # y.id => x.name # y.name
    /\ \A x, y \in db.compositions :
          x.id # y.id => ~(x.composer_id = y.composer_id /\ x.title = y.title)
    /\ \A c, o \in DOMAIN sessions :
          ( /\ c # o
            /\ UniqueName(sessions[c]) \cap UniqueName(sessions[o]) # {}
            /\ sessions[c].pc = "done" /\ sessions[o].pc = "done" ) =>
                ~(Succeeded(sessions[c]) /\ Succeeded(sessions[o]))

\* Two creates with the same name both passed their existence queries; the
\* first to commit was stored, the other was refused by the store
C8_Witness ==
    \E c, o \in DOMAIN sessions :
        /\ c # o
        /\ UniqueName(sessions[c]) \cap UniqueName(sessions[o]) # {}
        /\ sessions[c].pc = "done" /\ sessions[c].status = HTTP_201_CREATED
        /\ sessions[o].pc = "done"
        /\ sessions[o].status = HTTP_500_INTERNAL_SERVER_ERROR
        /\ sessions[o].detail.kind = "IntegrityError"

-----------------------------------------------------------------------------
(* Properties of the sort key *)

\* C11: in every reachable state the stored sort_order of each composition
\* is extract_sort_order of its stored catalog_number: set on create,
\* recomputed by every update that supplies catalog_number, left alone by
\* the others, and not settable by a request.
C11_SortOrderFollowsCatalogNumber ==
    \A c \in db.compositions : c.sort_order = extract_sort_order(c.catalog_number)

\* An update whose body carried catalog_number "7a2" and a sort_order of its
\* own has stored the sort key 7
C11_Witness ==
    /\ response.op = "update_composition"
    /\ response.status = HTTP_200_OK
    /\ "sort_order" \in DOMAIN response.args.body
    /\ "catalog_number" \in DOMAIN response.args.body
    /\ response.body.catalog_number = Some(<<"7", "a", "2">>)
    /\ response.body.sort_order = Some(7)
    /\ response.args.body.sort_order # response.body.sort_order

RECURSIVE Pow10(_)
Pow10(n) == IF n = 0 THEN 1 ELSE 10 * Pow10(n - 1)

\* The number written by the digits text[b..e]
RECURSIVE RunValue(_, _, _)
RunValue(text, b, e) ==
    IF b > e THEN 0
    ELSE DigitValue(text[b]) * Pow10(e - b) + RunValue(text, b + 1, e)

\* text[b..e] is the first maximal run of digits of text
IsFirstRun(text, b, e) ==
    /\ b <= e
    /\ \A k \in 1..(b - 1) : text[k] \notin Digits
    /\ \A k \in b..e : text[k] \in Digits
    /\ e = Len(text) \/ text[e + 1] \notin Digits

\* C12: extract_sort_order returns the integer value of the first maximal
\* run of decimal digits of a catalog number that has a digit (later runs
\* are ignored), and no sort key for a catalog number that is absent, empty
\* or without a digit.
C12_FirstRunOfDigits ==
    response.op = "extract_sort_order" =>
        LET catalog_number == response.args.catalog_number
            text == catalog_number[1]
        IN  IF catalog_number = None THEN response.body = None
            ELSE IF \A k \in DOMAIN text : text[k] \notin Digits THEN response.body = None
            ELSE \E b, e \in DOMAIN text :
                    /\ IsFirstRun(text, b, e)
                    /\ response.body = Some(RunValue(text, b, e))

\* "1K9" gives 1: the second run is ignored
C12_Witness ==
    /\ response.op = "extract_sort_order"
    /\ response.args.catalog_number = Some(<<"1", "K", "9">>)
    /\ response.body = Some(1)

\* The compositions of a composer and the recordings of those compositions
CompositionsOf(d, composer_id) == {c \in d.compositions : c.composer_id = Some(composer_id)}
RecordingsOf(d, composer_id) ==
    {r \in d.recordings :
        \E c \in CompositionsOf(d, composer_id) : r.composition_id = Some(c.id)}

\* C13: once delete_composer(X) has succeeded, the compositions X had and
\* the recordings of those compositions are gone (read_composition and
\* read_recording answer 404 for them) and no row of recording_artists or
\* album_recordings refers to such a recording.
C13_DeleteComposerCascades ==
    [][(response'.op = "delete_composer" /\ response'.status = HTTP_204_NO_CONTENT) =>
        LET X == response'.args.composer_id
        IN  /\ \A c \in CompositionsOf(db, X) :
                  read_composition(db', c.id).status = HTTP_404_NOT_FOUND
            /\ \A r \in RecordingsOf(db, X) :
                  /\ read_recording(db', r.id).status = HTTP_404_NOT_FOUND
                  /\ \A l \in db'.recording_artists : l.recording_id # r.id
                  /\ \A l \in db'.album_recordings : l.recording_id # r.id]_vars

\* Composer 1 deleted from the whole catalog: compositions 1 and 2 and
\* recordings 1 and 2 went with it, the rest stays
C13_Witness ==
    /\ response.op = "delete_composer" /\ response.status = HTTP_204_NO_CONTENT
    /\ response.args.composer_id = 1
    /\ {c.id : c \in db.compositions} = {3}
    /\ {r.id : r \in db.recordings} = {3}
    /\ {<<l.recording_id, l.artist_id>> : l \in db.recording_artists} = {<<3, 2>>, <<3, 3>>}
    /\ {<<l.album_id, l.recording_id>> : l \in db.album_recordings} = {<<1, 3>>}
    /\ Cardinality(db.artists) = 3 /\ Cardinality(db.albums) = 2

\* A sequence of rows without the row of this id
Without(rows, id) == SelectSeq(rows, LAMBDA r : r.id # id)

\* C14: delete_artist(A) removes A and the recording_artists rows of A and
\* nothing else: every recording stays and lists its other artists in the
\* order they had. delete_recording(R) removes R and the link rows of R:
\* every album and artist stays, an album lists its other recordings.
\* delete_album removes no recording and no recording_artists row.
C14_DeleteRemovesOnlyLinks ==
    [][(response'.status = HTTP_204_NO_CONTENT) =>
        /\ response'.op = "delete_artist" =>
              LET A == response'.args.artist_id
              IN  /\ db'.recordings = db.recordings
                  /\ db'.artists = {a \in db.artists : a.id # A}
                  /\ db'.recording_artists = {l \in db.recording_artists : l.artist_id # A}
                  /\ \A r \in db.recordings :
                        Recording_artists(db', r.id) =
                            {Without(artists, A) : artists \in Recording_artists(db, r.id)}
                  /\ db'.albums = db.albums /\ db'.album_recordings = db.album_recordings
        /\ response'.op = "delete_recording" =>
              LET R == response'.args.recording_id
              IN  /\ db'.recordings = {r \in db.recordings : r.id # R}
                  /\ db'.recording_artists = {l \in db.recording_artists : l.recording_id # R}
                  /\ db'.album_recordings = {l \in db.album_recordings : l.recording_id # R}
                  /\ db'.albums = db.albums /\ db'.artists = db.artists
        /\ response'.op = "delete_album" =>
              LET B == response'.args.album_id
              IN  /\ db'.recordings = db.recordings
                  /\ db'.recording_artists = db.recording_artists
                  /\ db'.artists = db.artists
                  /\ db'.album_recordings = {l \in db.album_recordings : l.album_id # B}]_vars

\* Artist 1 deleted from the whole catalog: recording 1 lists artists 3 and
\* 2 in that order, recording 2 lists nobody
C14_Witness ==
    /\ response.op = "delete_artist" /\ response.status = HTTP_204_NO_CONTENT
    /\ response.args.artist_id = 1
    /\ {r.id : r \in db.recordings} = {1, 2, 3}
    /\ \A artists \in Recording_artists(db, 1) :
          Len(artists) = 2 /\ artists[1].id = 3 /\ artists[2].id = 2
    /\ Recording_artists(db, 2) = {<<>>}
    /\ Cardinality(db.album_recordings) = 4

\* The list of ids a request carries for the link table of its owner, if any
CarriedList(res) ==
    CASE res.op = "create_recording" -> Some(res.args.recording.artist_ids)
      [] res.op = "create_album" -> Some(res.args.album.recording_ids)
      [] res.op = "update_recording" /\ IsSupplied(res.args.update_data, "artist_ids") ->
            res.args.update_data.artist_ids
      [] res.op = "update_album" /\ IsSupplied(res.args.update_data, "recording_ids") ->
            res.args.update_data.recording_ids
      [] OTHER -> None

\* The link rows of the owner the request addresses, as <<id, position>>
LinksOfOwner(d, before, res) ==
    CASE res.op = "create_recording" ->
            {<<l.artist_id, l.artist_order>> :
                l \in {x \in d.recording_artists : x.recording_id = NextId(before, "recordings")}}
      [] res.op = "update_recording" ->
            {<<l.artist_id, l.artist_order>> :
                l \in {x \in d.recording_artists : x.recording_id = res.args.recording_id}}
      [] res.op = "create_album" ->
            {<<l.recording_id, l.recording_order>> :
                l \in {x \in d.album_recordings : x.album_id = NextId(before, "albums")}}
      [] res.op = "update_album" ->
            {<<l.recording_id, l.recording_order>> :
                l \in {x \in d.album_recordings : x.album_id = res.args.album_id}}

Repeats(ids) == \E i, j \in DOMAIN ids : i # j /\ ids[i] = ids[j]

OneRowPerPair(d) ==
    /\ \A l1, l2 \in d.recording_artists :
          (l1.recording_id = l2.recording_id /\ l1.artist_id = l2.artist_id) => l1 = l2
    /\ \A l1, l2 \in d.album_recordings :
          (l1.album_id = l2.album_id /\ l1.recording_id = l2.recording_id) => l1 = l2

\* C15: the link tables never hold two rows for one (recording, artist) or
\* (album, recording) pair. A create or update whose list repeats an id is
\* rejected with the store as it was, or leaves one row for that id; and the
\* rows of the owner after a request are those it had or those of the whole
\* list, never those of a part of it.
C15_OneLinkPerPair ==
    /\ []OneRowPerPair(db)
    /\ [][CarriedList(response') # None =>
            LET ids == CarriedList(response')[1]
                old == LinksOfOwner(db, db, response')
                new == LinksOfOwner(db', db, response')
            IN  /\ new = old \/ new = {<<ids[i], i - 1>> : i \in DOMAIN ids}
                /\ Repeats(ids) =>
                      \/ /\ ~Succeeded(response')
                         /\ db' = [db EXCEPT !.autoincrement = db'.autoincrement]
                      \/ \A id \in Range(ids) :
                            Cardinality({l \in new : l[1] = id}) = 1]_vars

\* An update that names artist 1 twice is turned down and the recording
\* keeps the two artists it had
C15_Witness ==
    /\ response.op = "update_recording" /\ response.status = HTTP_404_NOT_FOUND
    /\ IsSupplied(response.args.update_data, "artist_ids")
    /\ response.args.update_data.artist_ids = Some(<<1, 1>>)
    /\ response.detail.kind = "Artists not found"
    /\ {<<l.artist_id, l.artist_order>> :
            l \in {x \in db.recording_artists : x.recording_id = response.args.recording_id}}
         = {<<2, 0>>, <<1, 1>>}

\* The rows skip + 1 .. skip + limit of a sequence, as far as it reaches
PageOf(all, skip, limit) ==
    LET rest == IF Len(all) > skip THEN Len(all) - skip ELSE 0
    IN  [i \in 1..(IF limit < rest THEN limit ELSE rest) |-> all[skip + i]]

\* The list is the page skip, limit of the rows arranged so that every row
\* may precede the rows after it
ListedInOrder(list, rows, skip, limit, mayPrecede(_, _)) ==
    \E all \in Arrangements(rows) :
        /\ \A i, j \in DOMAIN all : i < j => mayPrecede(all[i], all[j])
        /\ Ids(list) = Ids(PageOf(all, skip, limit))

\* Ascending by year with the rows without a year last, then by name
ByBirthYearThenName(a, b) ==
    \/ a.birth_year # None /\ b.birth_year = None
    \/ a.birth_year # None /\ b.birth_year # None /\ a.birth_year[1] < b.birth_year[1]
    \/ a.birth_year = b.birth_year /\ collate(a.name[1]) <= collate(b.name[1])

\* C16 as stated: read_artists returns the artists ascending by birth_year,
\* those without a birth_year last, ties broken by ascending name.
C16_ArtistsByBirthYear ==
    (response.op = "read_artists" /\ response.status = HTTP_200_OK) =>
        ListedInOrder(response.body, db.artists, response.args.skip, response.args.limit,
                      ByBirthYearThenName)

\* C16, amended: read_artists returns the artists ascending by name,
\* whatever their birth_year.
C16_ArtistsByName ==
    (response.op = "read_artists" /\ response.status = HTTP_200_OK) =>
        ListedInOrder(response.body, db.artists, response.args.skip, response.args.limit,
                      LAMBDA a, b : collate(a.name[1]) <= collate(b.name[1]))

\* Abbado, born in an unknown year, is listed before Brendel, born in 1900
C16_Witness ==
    /\ response.op = "read_artists" /\ response.status = HTTP_200_OK
    /\ response.args.skip = 0 /\ response.args.limit = DEFAULT_LIMIT
    /\ Len(response.body) = 2
    /\ response.body[1].name = Some("Abbado") /\ response.body[1].birth_year = None
    /\ response.body[2].name = Some("Brendel") /\ response.body[2].birth_year = Some(1900)
    /\ response.body[1].id > response.body[2].id

\* C17: read_composers returns the composers ascending by birth_year, those
\* without a birth_year after all the others, ties on birth_year broken by
\* ascending short name.
C17_ComposersByBirthYear ==
    (response.op = "read_composers" /\ response.status = HTTP_200_OK) =>
        ListedInOrder(response.body, db.composers, response.args.skip, response.args.limit,
                      ByBirthYearThenName)

\* Brendel and Casals, both born in 1950, come by name although Casals was
\* created first; Abbado, born in an unknown year, comes after them
C17_Witness ==
    /\ response.op = "read_composers" /\ response.status = HTTP_200_OK
    /\ response.args.skip = 0 /\ response.args.limit = 2
    /\ Cardinality(db.composers) = 3
    /\ \E c \in db.composers : c.birth_year = None /\ c.name = Some("Abbado")
    /\ Len(response.body) = 2
    /\ response.body[1].name = Some("Brendel") /\ response.body[1].birth_year = Some(1950)
    /\ response.body[2].name = Some("Casals") /\ response.body[2].birth_year = Some(1950)
    /\ response.body[1].id > response.body[2].id

\* Ascending by composer, then by sort_order with the rows without one last,
\* then by catalog_number where both rows have one
ByComposerThenSortOrder(a, b) ==
    \/ a.composer_id[1] < b.composer_id[1]
    \/ /\ a.composer_id = b.composer_id
       /\ \/ a.sort_order # None /\ b.sort_order = None
          \/ a.sort_order # None /\ b.sort_order # None /\ a.sort_order[1] < b.sort_order[1]
          \/ /\ a.sort_order = b.sort_order
             /\ \/ a.catalog_number = None \/ b.catalog_number = None
                \/ ~string_lt(b.catalog_number[1], a.catalog_number[1])

\* C18: read_compositions returns the matching compositions ascending by
\* composer id, within a composer ascending by sort_order with those without
\* a sort_order after the others, then ascending by catalog_number.
C18_CompositionsByComposerAndSortOrder ==
    (response.op = "read_compositions" /\ response.status = HTTP_200_OK) =>
        ListedInOrder(response.body,
                      {c \in db.compositions :
                          response.args.composer_id # None =>
                              c.composer_id = response.args.composer_id},
                      response.args.skip, response.args.limit, ByComposerThenSortOrder)

\* "B2" before "K2", created earlier, both with sort key 2, and the
\* composition without a catalog number, created first, after them
C18_Witness ==
    /\ response.op = "read_compositions" /\ response.status = HTTP_200_OK
    /\ response.args.skip = 0 /\ response.args.limit = DEFAULT_LIMIT
    /\ Len(response.body) = 3
    /\ response.body[1].catalog_number = Some(<<"B", "2">>)
    /\ response.body[2].catalog_number = Some(<<"K", "2">>)
    /\ response.body[3].catalog_number = None /\ response.body[3].sort_order = None
    /\ response.body[3].composer_id = Some(1)
    /\ response.body[3].id < response.body[2].id
    /\ response.body[2].id < response.body[1].id

\* Descending by year with the rows without a year last, then descending by id
ByYearThenIdDescending(a, b) ==
    \/ a.year # None /\ b.year = None
    \/ a.year # None /\ b.year # None /\ a.year[1] > b.year[1]
    \/ a.year = b.year /\ a.id >= b.id

\* C19: read_recordings returns the matching recordings descending by year,
\* those without a year after all the others, and recordings of the same
\* year, or both without one, by descending id.
C19_RecordingsByYearDescending ==
    (response.op = "read_recordings" /\ response.status = HTTP_200_OK) =>
        ListedInOrder(response.body,
                      read_recordings_filter(db, response.args.composition_id,
                                             response.args.composer_id,
                                             response.args.artist_id),
                      response.args.skip, response.args.limit, ByYearThenIdDescending)

\* Two recordings of 1950, the later one first, listed before a recording
\* without a year that was created before them
C19_Witness ==
    /\ response.op = "read_recordings" /\ response.status = HTTP_200_OK
    /\ response.args.skip = 0 /\ response.args.limit = DEFAULT_LIMIT
    /\ response.args.composition_id = None /\ response.args.composer_id = None
    /\ response.args.artist_id = None
    /\ Len(response.body) = 3
    /\ response.body[1].year = Some(1950) /\ response.body[2].year = Some(1950)
    /\ response.body[3].year = None
    /\ response.body[1].id > response.body[2].id
    /\ response.body[3].id < response.body[2].id

\* The pages skip = 0, limit, 2 * limit, ... of a list handler, however the
\* handler chooses each of them, hold every row exactly once
PagesPartition(pages(_), rows, limit) ==
    LET last == Cardinality(rows) \div limit
        lists == UNION {pages(k * limit) : k \in 0..last}
    IN  \A fetched \in [0..last -> lists] :
            (\A k \in 0..last : fetched[k] \in pages(k * limit)) =>
                \A r \in rows :
                    Cardinality({<<k, i>> \in (0..last) \X (1..Cardinality(rows)) :
                                    i \in DOMAIN fetched[k] /\ fetched[k][i].id = r.id}) = 1

\* C20: for every list handler and every content of the store the pages
\* fetched with skip = 0, limit, 2 * limit, ... over the unchanged store
\* contain every matching row exactly once.
C20_PagesHoldEveryRowOnce ==
    \A limit \in Limits :
        /\ workload = "list_composers" =>
              PagesPartition(LAMBDA skip : read_composers(db, skip, limit, None),
                             db.composers, limit)
        /\ workload = "list_artists" =>
              PagesPartition(LAMBDA skip : read_artists(db, skip, limit, None), db.artists,
                             limit)
        /\ workload = "list_compositions" =>
              \A composer_id \in IdFilters :
                  PagesPartition(
                      LAMBDA skip : read_compositions(db, skip, limit, composer_id, None),
                      read_compositions_filter(db, composer_id, None), limit)
        /\ workload = "list_recordings" =>
              \A artist_id \in IdFilters :
                  PagesPartition(
                      LAMBDA skip : read_recordings(db, skip, limit, None, None, artist_id),
                      read_recordings_filter(db, None, None, artist_id), limit)
        /\ workload = "list_albums" =>
              PagesPartition(LAMBDA skip : read_albums(db, skip, limit, None),
                             db.albums, limit)

\* No two entries of a list are the same record
EachOnce(list) == \A i, j \in DOMAIN list : i # j => list[i].id # list[j].id

\* A list fetched from the start with the default limit holds all the rows
WholeList(res, rows) ==
    (res.args.skip = 0 /\ res.args.limit = DEFAULT_LIMIT) =>
        {res.body[i].id : i \in DOMAIN res.body} = {r.id : r \in rows}

\* C21: read_artists lists each artist once with recording_count the number
\* of recording_artists rows of the artist, and read_compositions lists each
\* matching composition once with recording_count the number of recordings
\* of the composition; the count is 0 when there is none.
C21_RecordingCount ==
    /\ (response.op = "read_artists" /\ response.status = HTTP_200_OK) =>
          /\ EachOnce(response.body)
          /\ WholeList(response, db.artists)
          /\ \A i \in DOMAIN response.body :
                response.body[i].recording_count =
                    Cardinality({l \in db.recording_artists :
                                    l.artist_id = response.body[i].id})
    /\ (response.op = "read_compositions" /\ response.status = HTTP_200_OK) =>
          /\ EachOnce(response.body)
          /\ WholeList(response,
                       {c \in db.compositions :
                           response.args.composer_id # None =>
                               c.composer_id = response.args.composer_id})
          /\ \A i \in DOMAIN response.body :
                response.body[i].recording_count =
                    Cardinality({r \in db.recordings :
                                    r.composition_id = Some(response.body[i].id)})

\* Abbado on three recordings and Brendel on none
C21_Witness ==
    /\ response.op = "read_artists" /\ response.status = HTTP_200_OK
    /\ Len(response.body) = 2
    /\ response.body[1].name = Some("Abbado") /\ response.body[1].recording_count = 3
    /\ response.body[2].name = Some("Brendel") /\ response.body[2].recording_count = 0

\* The text is part of the value, a letter and its capital taken as equal
Contains(value, text) ==
    /\ value # None
    /\ \E i \in 1..(Len(value[1]) + 1) :
          /\ i + Len(text) - 1 <= Len(value[1])
          /\ \A k \in DOMAIN text : upper(value[1][i + k - 1]) = upper(text[k])

\* The ids a list fetched whole holds
Listed(res) == {res.body[i].id : i \in DOMAIN res.body}

\* C22: read_compositions with composer_id = c and search = s returns
\* exactly the compositions of c whose title or catalog_number contains s
\* as a literal substring, letters compared without case; read_composers
\* and read_artists with search = s return exactly the records one of whose
\* searched fields contains s in that sense.
C22_SearchIsLiteralSubstring ==
    (response.status = HTTP_200_OK /\ "search" \in DOMAIN response.args
        /\ response.args.search # None) =>
        LET s == response.args.search[1]
        IN  /\ response.op = "read_compositions" =>
                  Listed(response) =
                    {c.id : c \in {x \in db.compositions :
                        /\ response.args.composer_id # None =>
                              x.composer_id = response.args.composer_id
                        /\ \/ Contains(Column_chars(x.title), s)
                           \/ Contains(x.catalog_number, s)}}
            /\ response.op = "read_composers" =>
                  Listed(response) =
                    {c.id : c \in {x \in db.composers :
                        \/ Contains(Column_chars(x.full_name), s)
                        \/ Contains(Column_chars(x.name), s)
                        \/ Contains(Column_chars(x.nationality), s)}}
            /\ response.op = "read_artists" =>
                  Listed(response) =
                    {a.id : a \in {x \in db.artists :
                        \/ Contains(Column_chars(x.name), s)
                        \/ Contains(Column_chars(x.nationality), s)
                        \/ Contains(Column_chars(x.instrument), s)}}

\* No two rows of the table agree on the column
PairwiseDistinct(rows, column) ==
    \A x \in rows : \A y \in rows : x[column] = y[column] => x = y

\* C23: create_composer answers 400 "name exists" and stores nothing when a
\* composer already has the full_name, answers 400 "short name exists" and
\* stores nothing when only the short name is taken, and answers 201 and
\* stores the composer exactly when both are unused; in every state the
\* full_names of the composers are pairwise distinct and so are their
\* short names.
C23_CreateComposerConflicts ==
    /\ [](PairwiseDistinct(db.composers, "full_name")
            /\ PairwiseDistinct(db.composers, "name"))
    /\ [][response'.op = "create_composer" =>
            LET composer == response'.args.composer
                full_name_taken == \E c \in db.composers : c.full_name = composer.full_name
                name_taken == \E c \in db.composers : c.name = composer.name
            IN  /\ full_name_taken =>
                      /\ response'.status = HTTP_400_BAD_REQUEST
                      /\ response'.detail.kind = "Composer with name exists"
                      /\ db'.composers = db.composers
                /\ (~full_name_taken /\ name_taken) =>
                      /\ response'.status = HTTP_400_BAD_REQUEST
                      /\ response'.detail.kind = "Composer with short name exists"
                      /\ db'.composers = db.composers
                /\ (~full_name_taken /\ ~name_taken) =>
                      /\ response'.status = HTTP_201_CREATED
                      /\ db'.composers =
                            db.composers \cup {[id |-> NextId(db, "composers")] @@ composer}]_vars

\* A second composer refused for its short name alone, after the first was
\* given the short name by an update
C23_Witness ==
    /\ response.op = "create_composer" /\ response.status = HTTP_400_BAD_REQUEST
    /\ response.detail.kind = "Composer with short name exists"
    /\ response.args.composer.full_name = Some("Brendel")
    /\ response.args.composer.name = Some("Abbado")
    /\ \E c \in db.composers :
          c.full_name = Some("") /\ c.name = Some("Abbado") /\ c.birth_year = Some(1900)
    /\ Cardinality(db.composers) = 1

\* The payload supplies a value for the column that another row of the
\* rows already holds
HeldByAnother(rows, id, update_data, column) ==
    /\ column \in DOMAIN update_data /\ update_data[column] # None
    /\ \E other \in rows : other.id # id /\ other[column] = update_data[column]

\* The payload supplies, for each of the columns it has, the value the row
\* holds now
Resupplies(row, update_data, columns) ==
    /\ DOMAIN update_data \cap columns # {}
    /\ \A column \in DOMAIN update_data \cap columns : update_data[column] = row[column]

\* C24: update_composer, update_artist and update_composition of an
\* existing record answer 200 when the payload re-supplies the record's own
\* full_name, short name, artist name, title or catalog_number, and answer
\* 400 exactly when another record (of the same composer, for a
\* composition) holds a value the payload supplies.
C24_ConflictExactlyWithAnotherRecord ==
    [][/\ (response'.op = "update_composer"
            /\ \E c \in db.composers : c.id = response'.args.composer_id) =>
              LET id == response'.args.composer_id
                  update_data == response'.args.update_data
                  row == CHOOSE c \in db.composers : c.id = id
              IN  /\ Resupplies(row, update_data, {"full_name", "name"}) =>
                         response'.status = HTTP_200_OK
                  /\ response'.status = HTTP_400_BAD_REQUEST <=>
                         \/ HeldByAnother(db.composers, id, update_data, "full_name")
                         \/ HeldByAnother(db.composers, id, update_data, "name")
       /\ (response'.op = "update_artist"
            /\ \E a \in db.artists : a.id = response'.args.artist_id) =>
              LET id == response'.args.artist_id
                  update_data == response'.args.update_data
                  row == CHOOSE a \in db.artists : a.id = id
              IN  /\ Resupplies(row, update_data, {"name"}) =>
                         response'.status = HTTP_200_OK
                  /\ response'.status = HTTP_400_BAD_REQUEST <=>
                         HeldByAnother(db.artists, id, update_data, "name")
       /\ (response'.op = "update_composition"
            /\ \E c \in db.compositions : c.id = response'.args.composition_id) =>
              LET id == response'.args.composition_id
                  update_data == response'.args.update_data
                  row == CHOOSE c \in db.compositions : c.id = id
                  composer_id == IF "composer_id" \in DOMAIN update_data
                                 THEN update_data.composer_id ELSE row.composer_id
                  siblings == {c \in db.compositions : c.composer_id = composer_id}
              IN  /\ ("composer_id" \notin DOMAIN update_data
                        /\ Resupplies(row, update_data, {"title", "catalog_number"})) =>
                         response'.status = HTTP_200_OK
                  /\ (\E c \in db.composers : Some(c.id) = composer_id) =>
                        (response'.status = HTTP_400_BAD_REQUEST <=>
                            \/ HeldByAnother(siblings, id, update_data, "title")
                            \/ HeldByAnother(siblings, id, update_data, "catalog_number"))]_vars

UpdateOps ==
    {"update_composer", "update_composition", "update_artist", "update_recording",
     "update_album"}

\* C25: an update whose payload supplies no field is answered with a
\* ValidationError and leaves the store as it was.
C25_EmptyUpdateRejected ==
    [][(response'.op \in UpdateOps /\ DOMAIN response'.args.update_data = {}) =>
          /\ response'.detail.kind = "ValidationError"
          /\ ~Succeeded(response')
          /\ db' = db]_vars

\* The images of the album that are marked primary
PrimaryImages(d, album_id) ==
    {r \in d.album_images : r.album_id = album_id /\ r.is_primary = 1}

\* C27: in every state each album has at most one image with is_primary = 1,
\* whatever image_urls and primary_image_index (absent, null, in range, out
\* of range) create_album and update_album were given.
C27_AtMostOnePrimaryImage ==
    \A a \in db.albums : Cardinality(PrimaryImages(db, a.id)) <= 1

\* Album 2 after its two images were replaced through update_album with
\* the second marked primary, next to album 1 and its primary cover
C27_Witness ==
    /\ response.op = "update_album" /\ response.status = HTTP_200_OK
    /\ response.args.album_id = 2
    /\ "image_urls" \in DOMAIN response.args.update_data
    /\ response.args.update_data.image_urls = Some(<<"i1", "i2">>)
    /\ "primary_image_index" \in DOMAIN response.args.update_data
    /\ response.args.update_data.primary_image_index = Some(1)
    /\ {r.image_url : r \in PrimaryImages(db, 2)} = {"i2"}
    /\ {r.image_url : r \in PrimaryImages(db, 1)} = {"cover"}
    /\ Cardinality({r \in db.album_images : r.album_id = 2}) = 2

\* The row of the id, and the rows of the other ids
RowOf(rows, id) == CHOOSE r \in rows : r.id = id
Others(rows, id) == {r \in rows : r.id # id}

\* After the update the row holds the payload's value in each field the
\* payload supplies and its former value in every other field; the derived
\* fields are left out
Kept(before, after, update_data, derived) ==
    \A f \in DOMAIN before \ derived :
        after[f] = IF f \in DOMAIN update_data THEN update_data[f] ELSE before[f]

\* The update of one row of the table: the other rows stay, and so does
\* every table outside touched
Frame(table, id, update_data, derived, touched) ==
    /\ Others(db'[table], id) = Others(db[table], id)
    /\ Kept(RowOf(db[table], id), RowOf(db'[table], id), update_data, derived)
    /\ \A t \in DOMAIN db \ ({table} \cup touched) : db'[t] = db[t]

\* The rows of a table owned by another row than the one updated stay, and
\* all rows stay when the payload does not supply the collection
CollectionKept(table, owner, id, update_data, key) ==
    /\ {r \in db'[table] : r[owner] # id} = {r \in db[table] : r[owner] # id}
    /\ key \notin DOMAIN update_data => db'[table] = db[table]

\* C26: a successful update leaves every scalar field the payload does not
\* supply as it was and gives the supplied ones the payload's value
\* (sort_order follows a supplied catalog_number); update_recording without
\* artist_ids keeps the artist links, update_album keeps the rows, and with
\* them the order, of each collection among recording_ids, image_urls and
\* custom_urls that the payload does not supply; a primary_image_index
\* without image_urls changes no image.
C26_UpdateChangesOnlySupplied ==
    [][(response'.op \in UpdateOps /\ response'.status = HTTP_200_OK) =>
        LET update_data == response'.args.update_data
        IN  /\ response'.op = "update_composer" =>
                  Frame("composers", response'.args.composer_id, update_data, {}, {})
            /\ response'.op = "update_artist" =>
                  Frame("artists", response'.args.artist_id, update_data, {}, {})
            /\ response'.op = "update_composition" =>
                  Frame("compositions", response'.args.composition_id, update_data,
                        IF "catalog_number" \in DOMAIN update_data
                        THEN {"sort_order"} ELSE {}, {})
            /\ response'.op = "update_recording" =>
                  /\ Frame("recordings", response'.args.recording_id, update_data, {},
                           {"recording_artists"})
                  /\ CollectionKept("recording_artists", "recording_id",
                                    response'.args.recording_id, update_data, "artist_ids")
            /\ response'.op = "update_album" =>
                  LET id == response'.args.album_id
                  IN  /\ Frame("albums", id, update_data, {},
                               {"album_recordings", "album_images", "album_custom_urls",
                                "autoincrement"})
                      /\ CollectionKept("album_recordings", "album_id", id, update_data,
                                        "recording_ids")
                      /\ CollectionKept("album_images", "album_id", id, update_data,
                                        "image_urls")
                      /\ CollectionKept("album_custom_urls", "album_id", id, update_data,
                                        "custom_urls")]_vars

\* update_album of album 2 with a primary_image_index and a memo but no
\* image_urls: the memo is set, the two images and their flags stay
C26_Witness ==
    /\ response.op = "update_album" /\ response.status = HTTP_200_OK
    /\ response.args.album_id = 2
    /\ response.args.update_data = [primary_image_index |-> Some(0), memo |-> Some("m")]
    /\ RowOf(db.albums, 2).memo = Some("m")
    /\ {<<r.image_url, r.is_primary>> : r \in {x \in db.album_images : x.album_id = 2}}
          = {<<"i1", 0>>, <<"i2", 1>>}
    /\ Cardinality({r \in db.album_recordings : r.album_id = 2}) = 2
    /\ Cardinality({r \in db.album_custom_urls : r.album_id = 2}) = 2

\* C28: update_composition whose payload holds composer_id alone, naming a
\* composer that has another composition with the title or with the
\* (non-null) catalog_number of the composition updated, answers 400 and
\* the composition keeps its composer.
C28_ComposerChangeConflict ==
    [][(/\ response'.op = "update_composition"
        /\ DOMAIN response'.args.update_data = {"composer_id"}
        /\ \E c \in db.compositions : c.id = response'.args.composition_id
        /\ \E c \in db.compositions :
              /\ c.id # response'.args.composition_id
              /\ c.composer_id = response'.args.update_data.composer_id
              /\ \/ c.title = RowOf(db.compositions, response'.args.composition_id).title
                 \/ /\ c.catalog_number # None
                    /\ c.catalog_number =
                          RowOf(db.compositions, response'.args.composition_id).catalog_number) =>
          /\ response'.status = HTTP_400_BAD_REQUEST
          /\ RowOf(db'.compositions, response'.args.composition_id).composer_id =
                RowOf(db.compositions, response'.args.composition_id).composer_id]_vars

\* The positions are 0, 1, ..., n-1 for n links, none missing or repeated
Contiguous(links, position(_)) ==
    /\ {position(l) : l \in links} = 0..(Cardinality(links) - 1)
    /\ \A x \in links : \A y \in links : position(x) = position(y) => x = y

ReferentialIntegrity(d) ==
    /\ \A c \in d.compositions : \E p \in d.composers : c.composer_id = Some(p.id)
    /\ \A r \in d.recordings : \E c \in d.compositions : r.composition_id = Some(c.id)
    /\ \A l \in d.recording_artists :
          /\ \E r \in d.recordings : r.id = l.recording_id
          /\ \E a \in d.artists : a.id = l.artist_id
    /\ \A l \in d.album_recordings :
          /\ \E a \in d.albums : a.id = l.album_id
          /\ \E r \in d.recordings : r.id = l.recording_id
    /\ \A i \in d.album_images : \E a \in d.albums : a.id = i.album_id
    /\ \A u \in d.album_custom_urls : \E a \in d.albums : a.id = u.album_id

\* The request names a parent id that no row of the parents has
NamesMissingParent(res, parents) ==
    \/ /\ res.op \in {"create_composition", "create_recording"}
       /\ \A p \in parents :
             p.id # (IF res.op = "create_composition" THEN res.args.composition.composer_id
                     ELSE res.args.recording.composition_id)
    \/ /\ res.op \in {"update_composition", "update_recording"}
       /\ LET key == IF res.op = "update_composition" THEN "composer_id"
                     ELSE "composition_id"
          IN  /\ key \in DOMAIN res.args.update_data
              /\ res.args.update_data[key] # None
              /\ \A p \in parents : Some(p.id) # res.args.update_data[key]

\* C30: in every state each composition, recording, link, image and custom
\* URL refers to rows that exist; a create or update of a composition that
\* names a composer that does not exist, or of a recording that names a
\* composition that does not exist, answers 404 and leaves the store as it
\* was.
C30_ParentsExist ==
    /\ [](ReferentialIntegrity(db))
    /\ [][(\/ /\ response'.op \in {"create_composition", "update_composition"}
               /\ NamesMissingParent(response', db.composers)
            \/ /\ response'.op \in {"create_recording", "update_recording"}
               /\ NamesMissingParent(response', db.compositions)) =>
              /\ response'.status = HTTP_404_NOT_FOUND
              /\ db' = db]_vars

=============================================================================
